---- MODULE Spec2Model ----
(***************************************************************************)
(* Model of the notebook-to-HTML conversion service of ipynb_to_html.py:   *)
(* NotebookToHTMLConverter.convert_single_file and convert_directory, and  *)
(* the command line main, over a small filesystem.                         *)
(* Paths are sequences of names, a name is the                             *)
(* sequence of the pieces of its string ("a.ipynb" is <<"a", ".ipynb">>),  *)
(* so that suffix, stem, with_suffix and the "<stem>_files" side-car name  *)
(* are computed the way pathlib computes them.                             *)
(***************************************************************************)
EXTENDS Integers, Sequences, FiniteSets, TLC

(***************************************************************************)
(* Bounds of the model and constants of the program.                       *)
(***************************************************************************)
\* number of top-level calls made on one converter in one behaviour
MaxCalls == 1
\* ExecutePreprocessor(timeout=600, ...)
ExecTimeout == 600

(***************************************************************************)
(* pathlib: names and paths.                                               *)
(***************************************************************************)
\* the pieces of a name that begin with a dot
DotPieces == {".ipynb", ".IPYNB", ".html", ".htm", ".txt", ".png"}

\* str.lower() on the pieces used
Lower(s) == IF s = ".IPYNB" THEN ".ipynb" ELSE s

LowerSeq(q) == [i \in 1..Len(q) |-> Lower(q[i])]

\* index of the piece that starts the suffix of a name, 0 when it has none:
\* the last dot of the name, a leading dot not counting
SuffixStart(name) ==
    LET idx == {i \in 2..Len(name) : name[i] \in DotPieces}
    IN  IF idx = {} THEN 0 ELSE CHOOSE i \in idx : \A j \in idx : j <= i

\* PurePath.suffix
Suffix(name) ==
    IF SuffixStart(name) = 0 THEN <<>>
    ELSE SubSeq(name, SuffixStart(name), Len(name))

\* PurePath.stem
Stem(name) ==
    IF SuffixStart(name) = 0 THEN name
    ELSE SubSeq(name, 1, SuffixStart(name) - 1)

\* PurePath.name / PurePath.parent
Name(p) == p[Len(p)]

Parent(p) == IF Len(p) = 0 THEN p ELSE SubSeq(p, 1, Len(p) - 1)

\* PurePath.with_suffix(ext)
WithSuffix(p, ext) == Append(Parent(p), Stem(Name(p)) \o <<ext>>)

\* output_path.parent / f"{output_path.stem}_files"
SidecarDir(out) == Append(Parent(out), Stem(Name(out)) \o <<"_files">>)

\* PurePath.relative_to(base), for a path under base
RelativeTo(p, base) == SubSeq(p, Len(base) + 1, Len(p))

IsUnder(p, base) ==
    /\ Len(p) > Len(base)
    /\ SubSeq(p, 1, Len(base)) = base

\* the strict ancestors of a path, the working directory <<>> included
Ancestors(p) == {SubSeq(p, 1, k) : k \in 0..(Len(p) - 1)}

(***************************************************************************)
(* The filesystem: a function from the existing paths to their entries.    *)
(* Every existing path has its ancestors existing as directories.          *)
(***************************************************************************)
\* an optional value is a sequence of length 0 or 1 (Python's None, or p)
None == <<>>

Some(p) == <<p>>

\* contents of a file: a notebook (tag "nb"), a rendered page ("html"), a
\* binary resource ("bin") or anything else ("text")
Data(tag, id, outs, tpl, inp, emb, head, css) ==
    [tag |-> tag, id |-> id, outs |-> outs, tpl |-> tpl, inp |-> inp,
     emb |-> emb, head |-> head, css |-> css]

NoData == Data("", "", "", "", FALSE, FALSE, FALSE, FALSE)

DirEntry == [kind |-> "dir", data |-> NoData]

FileEntry(d) == [kind |-> "file", data |-> d]

NotebookData(id) == Data("nb", id, "stored", "", FALSE, FALSE, FALSE, FALSE)

TextData == Data("text", "", "", "", FALSE, FALSE, FALSE, FALSE)

\* the payload of the image output named name of the notebook document nb
ImageData(nb, name) == Data("bin", name[1], nb, "", FALSE, FALSE, FALSE, FALSE)

\* Path.exists(), Path.is_dir(), Path.is_file()
Exists(f, p) == p \in DOMAIN f

IsDir(f, p) == p \in DOMAIN f /\ f[p].kind = "dir"

IsFile(f, p) == p \in DOMAIN f /\ f[p].kind = "file"

\* an ancestor of p is a regular file: the OS answers ENOTDIR
BlockedByFile(f, p) == \E a \in Ancestors(p) : IsFile(f, a)

\* the outcome of a filesystem operation: the error raised ("" when none),
\* the filesystem after it and the writes it made, in order
FsResult(err, f, ev) == [err |-> err, fs |-> f, ev |-> ev]

Event(op, p) == [op |-> op, path |-> p]

\* os.mkdir(p)
OsMkdir(f, p) ==
    IF BlockedByFile(f, p) THEN FsResult("NotADirectoryError", f, <<>>)
    ELSE IF Exists(f, p) THEN FsResult("FileExistsError", f, <<>>)
    ELSE IF ~Exists(f, Parent(p)) THEN FsResult("FileNotFoundError", f, <<>>)
    ELSE FsResult("", (p :> DirEntry) @@ f, <<Event("mkdir", p)>>)

\* pathlib.Path.mkdir(parents=..., exist_ok=...)
RECURSIVE Mkdir(_, _, _, _)
Mkdir(f, p, parents, exist_ok) ==
    LET r == OsMkdir(f, p)
    IN  IF r.err = "" THEN r
        ELSE IF r.err = "FileNotFoundError"
        THEN IF ~parents \/ Len(p) = 0 THEN r
             ELSE LET up == Mkdir(f, Parent(p), TRUE, TRUE)
                  IN  IF up.err # "" THEN up
                      ELSE LET me == Mkdir(up.fs, p, FALSE, exist_ok)
                           IN  FsResult(me.err, me.fs, up.ev \o me.ev)
        ELSE IF ~exist_ok \/ ~IsDir(f, p) THEN r
        ELSE FsResult("", f, <<>>)

\* the file opened for appending: what was there stays in front
OpenWriteAppend(f, p, d) ==
    IF BlockedByFile(f, p) THEN FsResult("NotADirectoryError", f, <<>>)
    ELSE IF ~Exists(f, Parent(p)) THEN FsResult("FileNotFoundError", f, <<>>)
    ELSE IF IsDir(f, p) THEN FsResult("IsADirectoryError", f, <<>>)
    ELSE FsResult("",
                  (p :> FileEntry(IF Exists(f, p) THEN [d EXCEPT !.outs = "appended"]
                                  ELSE d)) @@ f,
                  <<Event("write", p)>>)

\* open(p, 'w') / open(p, 'wb') followed by f.write(d)
OpenWrite(f, p, d) ==
    IF BlockedByFile(f, p) THEN FsResult("NotADirectoryError", f, <<>>)
    ELSE IF ~Exists(f, Parent(p)) THEN FsResult("FileNotFoundError", f, <<>>)
    ELSE IF IsDir(f, p) THEN FsResult("IsADirectoryError", f, <<>>)
    ELSE FsResult("", (p :> FileEntry(d)) @@ f, <<Event("write", p)>>)

\* open(p, 'r'): the error raised, "" when the file can be read
OpenRead(f, p) ==
    IF ~Exists(f, p) THEN "FileNotFoundError"
    ELSE IF IsDir(f, p) THEN "IsADirectoryError"
    ELSE ""

(***************************************************************************)
(* The external collaborators: nbformat, the kernel, the HTML exporter.    *)
(***************************************************************************)
\* the notebooks of the model: nbA holds two image outputs, nbB none, nbD
\* one
ValidNotebooks == {"nbA", "nbB", "nbD"}

\* the image outputs of a notebook, in cell order, as resource file names
ImageOutputs(id) ==
    IF id = "nbA" THEN << <<"output_0", ".png">>, <<"output_1", ".png">> >>
    ELSE IF id = "nbD" THEN << <<"output_0", ".png">> >>
    ELSE <<>>

\* a notebook node: the document read and the state of its outputs
Node(id, outs) == [id |-> id, outs |-> outs]

NoNode == Node("", "")

Loaded(err, nb, log) == [err |-> err, nb |-> nb, log |-> log]

\* a printed line: what it says, the path it names and, for the final
\* report of the command line, the count it gives
Line(msg, p) == [msg |-> msg, path |-> p, n |-> 0]

CountLine(msg, n) == [msg |-> msg, path |-> <<>>, n |-> n]

\* with open(path) as f: nbformat.read(f, as_version=4)
ReadNotebook(f, p) ==
    IF OpenRead(f, p) # "" THEN Loaded(OpenRead(f, p), NoNode, <<>>)
    ELSE IF f[p].data.tag = "nb" /\ f[p].data.id \in ValidNotebooks
    THEN Loaded("", Node(f[p].data.id, f[p].data.outs), <<>>)
    ELSE Loaded("NotJSONError", NoNode, <<>>)

\* what the kernel does with one notebook: how long the run takes and
\* whether a cell raises
ExecEnv(dur, kerr) == [dur |-> dur, kerr |-> kerr]

ExecEnvs ==
    {ExecEnv(ExecTimeout, FALSE), ExecEnv(ExecTimeout + 1, FALSE),
     ExecEnv(ExecTimeout, TRUE)}

\* ExecutePreprocessor(timeout=600).preprocess raises: a cell error, or a
\* cell running past the timeout
PreprocessFails(env) == env.kerr \/ env.dur > ExecTimeout

\* _execute_notebook with the failure of preprocess raised again instead of
\* logged
ExecuteNotebookReraise(f, p, env) ==
    LET rd == ReadNotebook(f, p)
        l0 == <<Line("Executing notebook", p)>>
    IN  IF rd.err # "" THEN Loaded(rd.err, NoNode, l0)
        ELSE IF PreprocessFails(env) THEN Loaded("CellExecutionError", NoNode, l0)
        ELSE Loaded("", Node(rd.nb.id, "fresh"), l0)

\* NotebookToHTMLConverter._execute_notebook: the read is outside the try,
\* the failure of preprocess is caught, logged and the notebook returned
\* with the outputs it has
ExecuteNotebook(f, p, env) ==
    LET rd == ReadNotebook(f, p)
        l0 == <<Line("Executing notebook", p)>>
    IN  IF rd.err # "" THEN Loaded(rd.err, NoNode, l0)
        ELSE IF PreprocessFails(env)
        THEN Loaded("", Node(rd.nb.id, "partial"),
                    l0 \o <<Line("Warning: Failed to execute notebook", p),
                            Line("Proceeding with existing outputs...", p)>>)
        ELSE Loaded("", Node(rd.nb.id, "fresh"), l0)

\* the templates the program names
Templates == {"classic", "lab", "reveal"}

\* the templates the exporter finds installed: the ones the program names
\* and the exporter's own "basic"
InstalledTemplates == Templates \cup {"basic"}

\* NotebookToHTMLConverter.__init__: the configuration kept on the converter
Converter(embed_images, include_input, execute_notebook, template) ==
    [embed_images |-> embed_images, include_input |-> include_input,
     execute_notebook |-> execute_notebook, template |-> template]

Rendered(err, body, outputs) == [err |-> err, body |-> body, outputs |-> outputs]

\* resources['outputs'] for a notebook whose image outputs are extracted:
\* file name -> payload, in cell order
ResourceMapping(id) ==
    [k \in DOMAIN ImageOutputs(id) |->
        [name |-> ImageOutputs(id)[k], data |-> ImageData(id, ImageOutputs(id)[k])]]

\* html_exporter.from_notebook_node(notebook): the body, a function of the
\* node and of the configuration __init__ set on the exporter, and the
\* resource mapping resources['outputs'] (file name -> payload, in cell
\* order).  __init__ only sets template_name, embed_images (when true) and
\* exclude_input (when input is excluded): whether the exporter moves image
\* outputs into the resource mapping (ex) is the exporter's own behaviour.
\* The templates the program names render a whole document; the exporter's
\* "basic" renders the body alone, without a head.
FromNotebookNode(cv, nb, ex) ==
    IF cv.template \notin InstalledTemplates
    THEN Rendered("TemplateNotFound", NoData, <<>>)
    ELSE Rendered("",
                  Data("html", nb.id, nb.outs, cv.template, cv.include_input,
                       cv.embed_images, cv.template # "basic", FALSE),
                  IF ex THEN ResourceMapping(nb.id) ELSE <<>>)

\* NotebookToHTMLConverter._enhance_html_output: the stylesheet goes into
\* the head, when the document has one
EnhanceHtmlOutput(body) == [body EXCEPT !.css = body.head]

\* for filename, data in resources['outputs'].items(): open(...).write(data)
RECURSIVE WriteResources(_, _, _)
WriteResources(f, dir, names) ==
    IF names = <<>> THEN FsResult("", f, <<>>)
    ELSE LET w == OpenWrite(f, Append(dir, Head(names).name), Head(names).data)
         IN  IF w.err # "" THEN w
             ELSE LET rest == WriteResources(w.fs, dir, Tail(names))
                  IN  FsResult(rest.err, rest.fs, w.ev \o rest.ev)

\* the side-car directory made whether or not there is a resource
HandleResourcesAlwaysMkdir(f, out, outputs) ==
    LET md == Mkdir(f, SidecarDir(out), FALSE, TRUE)
    IN  IF md.err # "" THEN md
        ELSE LET wr == WriteResources(md.fs, SidecarDir(out), outputs)
             IN  FsResult(wr.err, wr.fs, md.ev \o wr.ev)

\* the resources written beside the page instead of into the side-car
\* directory
HandleResourcesFlat(f, out, outputs) ==
    IF outputs = <<>> THEN FsResult("", f, <<>>)
    ELSE WriteResources(f, Parent(out), outputs)

\* if resources.get('outputs'): the side-car directory and its files
HandleResources(f, out, outputs) ==
    IF outputs = <<>> THEN FsResult("", f, <<>>)
    ELSE LET md == Mkdir(f, SidecarDir(out), FALSE, TRUE)
         IN  IF md.err # "" THEN md
             ELSE LET wr == WriteResources(md.fs, SidecarDir(out), outputs)
                  IN  FsResult(wr.err, wr.fs, md.ev \o wr.ev)

\* the outcome of a call: the error raised ("" when it returned), the
\* value returned, the filesystem after it, its writes and its output
\* lines, in order
Outcome(raised, result, f, ev, log) ==
    [raised |-> raised, result |-> result, fs |-> f, ev |-> ev, log |-> log]

\* the resources handled before the page is written
ConvertBodyResourcesFirst(f, cv, ex, input, out, env) ==
    LET ld == IF cv.execute_notebook THEN ExecuteNotebook(f, input, env)
              ELSE ReadNotebook(f, input)
    IN  IF ld.err # "" THEN Outcome(ld.err, None, f, <<>>, ld.log)
        ELSE LET rn == FromNotebookNode(cv, ld.nb, ex)
             IN  IF rn.err # "" THEN Outcome(rn.err, None, f, <<>>, ld.log)
                 ELSE LET hr == HandleResources(f, out, rn.outputs)
                      IN  IF hr.err # ""
                          THEN Outcome(hr.err, None, hr.fs, hr.ev, ld.log)
                          ELSE LET wh == OpenWrite(hr.fs, out,
                                                   EnhanceHtmlOutput(rn.body))
                               IN  Outcome(wh.err, None, wh.fs,
                                           hr.ev \o wh.ev, ld.log)

\* the try block of convert_single_file, up to the last write
ConvertBody(f, cv, ex, input, out, env) ==
    LET ld == IF cv.execute_notebook THEN ExecuteNotebook(f, input, env)
              ELSE ReadNotebook(f, input)
    IN  IF ld.err # "" THEN Outcome(ld.err, None, f, <<>>, ld.log)
        ELSE LET rn == FromNotebookNode(cv, ld.nb, ex)
             IN  IF rn.err # "" THEN Outcome(rn.err, None, f, <<>>, ld.log)
                 ELSE LET wh == OpenWrite(f, out, EnhanceHtmlOutput(rn.body))
                      IN  IF wh.err # ""
                          THEN Outcome(wh.err, None, wh.fs, wh.ev, ld.log)
                          ELSE LET hr == HandleResources(wh.fs, out, rn.outputs)
                               IN  Outcome(hr.err, None, hr.fs,
                                           wh.ev \o hr.ev, ld.log)

\* the default output path with ".html" appended to the whole name
ResolveOutputAppend(input, output) ==
    IF output = None THEN Append(Parent(input), Name(input) \o <<".html">>)
    ELSE output[1]

\* if output_path is None: output_path = input_path.with_suffix('.html')
ResolveOutput(input, output) ==
    IF output = None THEN WithSuffix(input, ".html") ELSE output[1]

\* the failure of the try block wrapped in an error of the program's own
ConvertCheckedWrapping(f, cv, ex, input, output, env) ==
    LET out == ResolveOutput(input, output)
        b == ConvertBody(f, cv, ex, input, out, env)
        l0 == <<Line("Converting", input)>> \o b.log
    IN  IF b.raised = ""
        THEN Outcome("", Some(out), b.fs, b.ev,
                     l0 \o <<Line("Converted successfully", out)>>)
        ELSE Outcome("ConversionError", None, b.fs, b.ev,
                     l0 \o <<Line("Error converting", input)>>)

\* the paths of the resource files among the writes e, in order
ResourcePaths(e, out) ==
    LET IsResource(x) == x.op = "write" /\ x.path # out
        w == SelectSeq(e, IsResource)
    IN  [i \in DOMAIN w |-> w[i].path]

\* the result made of the page's path followed by the paths of the resource
\* files written
ConvertCheckedListing(f, cv, ex, input, output, env) ==
    LET out == ResolveOutput(input, output)
        b == ConvertBody(f, cv, ex, input, out, env)
        l0 == <<Line("Converting", input)>> \o b.log
    IN  IF b.raised = ""
        THEN Outcome("", Some(out) \o ResourcePaths(b.ev, out), b.fs, b.ev,
                     l0 \o <<Line("Converted successfully", out)>>)
        ELSE Outcome(b.raised, None, b.fs, b.ev,
                     l0 \o <<Line("Error converting", input)>>)

\* the rest of convert_single_file once its preconditions hold
ConvertChecked(f, cv, ex, input, output, env) ==
    LET out == ResolveOutput(input, output)
        b == ConvertBody(f, cv, ex, input, out, env)
        l0 == <<Line("Converting", input)>> \o b.log
    IN  IF b.raised = ""
        THEN Outcome("", Some(out), b.fs, b.ev,
                     l0 \o <<Line("Converted successfully", out)>>)
        ELSE Outcome(b.raised, None, b.fs, b.ev,
                     l0 \o <<Line("Error converting", input)>>)

\* convert_single_file with the extension looked at before the existence
ConvertSingleFileSuffixFirst(f, cv, ex, input, output, env) ==
    IF LowerSeq(Suffix(Name(input))) # <<".ipynb">>
    THEN Outcome("ValueError", None, f, <<>>, <<>>)
    ELSE IF ~Exists(f, input)
    THEN Outcome("FileNotFoundError", None, f, <<>>, <<>>)
    ELSE ConvertChecked(f, cv, ex, input, output, env)

\* convert_single_file without the check of the extension
ConvertSingleFileAnySuffix(f, cv, ex, input, output, env) ==
    IF ~Exists(f, input)
    THEN Outcome("FileNotFoundError", None, f, <<>>, <<>>)
    ELSE ConvertChecked(f, cv, ex, input, output, env)

\* NotebookToHTMLConverter.convert_single_file
ConvertSingleFile(f, cv, ex, input, output, env) ==
    IF ~Exists(f, input)
    THEN Outcome("FileNotFoundError", None, f, <<>>, <<>>)
    ELSE IF LowerSeq(Suffix(Name(input))) # <<".ipynb">>
    THEN Outcome("ValueError", None, f, <<>>, <<>>)
    ELSE ConvertChecked(f, cv, ex, input, output, env)

(***************************************************************************)
(* convert_directory.                                                      *)
(***************************************************************************)
\* Path.glob("*.ipynb") / Path.glob("**/*.ipynb") on a POSIX filesystem:
\* the entries whose name ends with ".ipynb", files or not
GlobMatches(name) == name[Len(name)] = ".ipynb"

\* the pattern "**/*.ipynb" whatever recursive is
GlobAnyDepth(f, dir, recursive) ==
    {p \in DOMAIN f : IsUnder(p, dir) /\ GlobMatches(Name(p))}

Glob(f, dir, recursive) ==
    {p \in DOMAIN f : /\ IsUnder(p, dir)
                      /\ recursive \/ Len(p) = Len(dir) + 1
                      /\ GlobMatches(Name(p))}

\* the orders in which the directory scan may deliver a set of paths
Orders(S) ==
    {q \in [1..Cardinality(S) -> S] : \A i, j \in DOMAIN q : i # j => q[i] # q[j]}

\* if not input_dir.exists() or not input_dir.is_dir()
InvalidRoot(f, input_dir) == ~Exists(f, input_dir) \/ ~IsDir(f, input_dir)

\* the output directory made without exist_ok
PrepareOutputDirStrict(f, input_dir, output) ==
    IF output = None THEN FsResult("", f, <<>>)
    ELSE Mkdir(f, output[1], TRUE, FALSE)

\* if output_dir is None: output_dir = input_dir
\* else: output_dir.mkdir(parents=True, exist_ok=True)
PrepareOutputDir(f, input_dir, output) ==
    IF output = None THEN FsResult("", f, <<>>)
    ELSE Mkdir(f, output[1], TRUE, TRUE)

\* every page put directly in the output directory
OutputFileFlat(input_dir, out_dir, notebook_file) ==
    Append(out_dir, Stem(Name(notebook_file)) \o <<".html">>)

\* output_dir / relative_path.with_suffix('.html')
OutputFile(input_dir, out_dir, notebook_file) ==
    out_dir \o WithSuffix(RelativeTo(notebook_file, input_dir), ".html")

\* the outcome of one iteration once convert_single_file has ended: its
\* result is appended, or its failure caught and logged
Caught(md, c, notebook_file) ==
    IF c.raised = ""
    THEN Outcome("", c.result, c.fs, md.ev \o c.ev, c.log)
    ELSE Outcome(c.raised, None, c.fs, md.ev \o c.ev,
                 c.log \o <<Line("Failed to convert", notebook_file)>>)

\* the try block of the loop once output_file.parent.mkdir has ended
TryConvert(md, cv, ex, notebook_file, output_file, env) ==
    IF md.err # ""
    THEN Outcome(md.err, None, md.fs, md.ev,
                 <<Line("Failed to convert", notebook_file)>>)
    ELSE Caught(md,
                ConvertSingleFile(md.fs, cv, ex, notebook_file, Some(output_file), env),
                notebook_file)

\* the body of the loop without output_file.parent.mkdir
ConvertOneNoMkdir(f, cv, ex, input_dir, out_dir, notebook_file, env) ==
    TryConvert(FsResult("", f, <<>>), cv, ex, notebook_file,
               OutputFile(input_dir, out_dir, notebook_file), env)

\* the body of the for loop for one notebook: the try block and its handler
ConvertOne(f, cv, ex, input_dir, out_dir, notebook_file, env) ==
    TryConvert(Mkdir(f, Parent(OutputFile(input_dir, out_dir, notebook_file)),
                     TRUE, TRUE),
               cv, ex, notebook_file,
               OutputFile(input_dir, out_dir, notebook_file), env)

Attempt(nb, out, raised, env) == [nb |-> nb, out |-> out, raised |-> raised, env |-> env]

BatchOutcome(raised, result, f, e, l, files, attempts) ==
    [raised |-> raised, result |-> result, fs |-> f, ev |-> e, log |-> l,
     files |-> files, attempts |-> attempts]

\* one iteration without the except clause: the failure leaves the loop
LoopStepNoCatch(acc, o, notebook_file, output_file, env) ==
    BatchOutcome(o.raised, acc.result \o o.result, o.fs, acc.ev \o o.ev,
                 acc.log \o o.log, Append(acc.files, notebook_file),
                 Append(acc.attempts, Attempt(notebook_file, output_file, o.raised, env)))

\* the state of the loop after one more iteration with outcome o:
\* converted_files.append(converted_file), or except Exception: continue
LoopStep(acc, o, notebook_file, output_file, env) ==
    BatchOutcome("", acc.result \o o.result, o.fs, acc.ev \o o.ev,
                 acc.log \o o.log, Append(acc.files, notebook_file),
                 Append(acc.attempts, Attempt(notebook_file, output_file, o.raised, env)))

\* one iteration of the for loop, from the state acc of the loop
Iterate(acc, cv, ex, input_dir, out_dir, notebook_file, env) ==
    LoopStep(acc,
             ConvertOne(acc.fs, cv, ex, input_dir, out_dir, notebook_file, env),
             notebook_file, OutputFile(input_dir, out_dir, notebook_file), env)

\* for notebook_file in notebook_files: ..., an exception that is not
\* caught ending it
RECURSIVE ConvertLoop(_, _, _, _, _, _, _)
ConvertLoop(acc, cv, ex, input_dir, out_dir, files, envs) ==
    IF files = <<>> \/ acc.raised # "" THEN acc
    ELSE ConvertLoop(Iterate(acc, cv, ex, input_dir, out_dir, Head(files), Head(envs)),
                     cv, ex, input_dir, out_dir, Tail(files), Tail(envs))

\* converted_files = [] and the "Found ..." line, before the loop
LoopStart(md, input_dir) ==
    BatchOutcome("", <<>>, md.fs, md.ev,
                 <<Line("Found notebook(s) to convert", input_dir)>>, <<>>, <<>>)

\* the rest of convert_directory once the output directory is there
ConvertEnumerated(md, cv, ex, input_dir, out_dir, scan, envs) ==
    IF scan = <<>>
    THEN BatchOutcome("", <<>>, md.fs, md.ev,
                      <<Line("No .ipynb files found", input_dir)>>, <<>>, <<>>)
    ELSE ConvertLoop(LoopStart(md, input_dir), cv, ex, input_dir, out_dir, scan, envs)

\* convert_directory once the root is known to be a directory
ConvertInto(md, cv, ex, input_dir, out_dir, scan, envs) ==
    IF md.err # ""
    THEN BatchOutcome(md.err, <<>>, md.fs, md.ev, <<>>, <<>>, <<>>)
    ELSE ConvertEnumerated(md, cv, ex, input_dir, out_dir, scan, envs)

\* if output_dir is None: output_dir = input_dir
ResolveOutputDir(input_dir, output) == IF output = None THEN input_dir ELSE output[1]

\* convert_directory with the output directory made before the root is
\* looked at
ConvertDirectoryMkdirFirst(f, cv, ex, input_dir, output, recursive, scan, envs) ==
    IF InvalidRoot(f, input_dir)
    THEN BatchOutcome("NotADirectoryError", <<>>,
                      PrepareOutputDir(f, input_dir, output).fs,
                      PrepareOutputDir(f, input_dir, output).ev, <<>>, <<>>, <<>>)
    ELSE ConvertInto(PrepareOutputDir(f, input_dir, output), cv, ex, input_dir,
                     ResolveOutputDir(input_dir, output), scan, envs)

\* NotebookToHTMLConverter.convert_directory; scan is the order in which
\* list(input_dir.glob(pattern)) delivers the notebooks, envs what the
\* kernel does with each
ConvertDirectory(f, cv, ex, input_dir, output, recursive, scan, envs) ==
    IF InvalidRoot(f, input_dir)
    THEN BatchOutcome("NotADirectoryError", <<>>, f, <<>>, <<>>, <<>>, <<>>)
    ELSE ConvertInto(PrepareOutputDir(f, input_dir, output), cv, ex, input_dir,
                     ResolveOutputDir(input_dir, output), scan, envs)

\* the enumerations list(input_dir.glob(pattern)) may deliver when the call
\* gets that far
Scans(f, input_dir, output, recursive) ==
    IF InvalidRoot(f, input_dir) \/ PrepareOutputDir(f, input_dir, output).err # ""
    THEN {<<>>}
    ELSE Orders(Glob(PrepareOutputDir(f, input_dir, output).fs, input_dir, recursive))

(***************************************************************************)
(* main: the command line.                                                 *)
(***************************************************************************)
\* how a run of main ends: the exit code of the process, the exception the
\* conversion call raised ("" when none), what it returned, the filesystem,
\* the writes, the lines printed and the loop's iterations
Exit(code, raised, result, f, e, l, attempts) ==
    [code |-> code, raised |-> raised, result |-> result, fs |-> f, ev |-> e,
     log |-> l, attempts |-> attempts]

\* except Exception as e: print(f"Error: {e}"); sys.exit(1)
MainExcept(o, input_path, attempts) ==
    Exit(1, o.raised, o.result, o.fs, o.ev,
         o.log \o <<Line("Error:", input_path)>>, attempts)

\* main with the exception of the conversion call swallowed
MainSingleExitZero(o, input_path) ==
    Exit(0, o.raised, o.result, o.fs, o.ev, o.log, <<>>)

\* if input_path.is_file(): converter.convert_single_file(...)
MainSingle(o, input_path) ==
    IF o.raised # "" THEN MainExcept(o, input_path, <<>>)
    ELSE Exit(0, "", o.result, o.fs, o.ev, o.log, <<>>)

\* the final report printed only when a notebook converted
MainDirectoryQuietOnNone(o, input_path) ==
    IF o.raised # "" THEN MainExcept(o, input_path, o.attempts)
    ELSE Exit(0, "", o.result, o.fs, o.ev,
              IF o.result = <<>> THEN o.log
              ELSE o.log \o <<CountLine("Successfully converted notebook(s)",
                                        Len(o.result))>>,
              o.attempts)

\* elif input_path.is_dir(): converted_files = converter.convert_directory(...)
\* and the final report
MainDirectory(o, input_path) ==
    IF o.raised # "" THEN MainExcept(o, input_path, o.attempts)
    ELSE Exit(0, "", o.result, o.fs, o.ev,
              o.log \o <<CountLine("Successfully converted notebook(s)",
                                   Len(o.result))>>,
              o.attempts)

\* main, from the parsed arguments on; cv is the converter built from the
\* flags
Main(f, cv, ex, input_path, output_path, recursive, env, scan, envs) ==
    IF IsFile(f, input_path)
    THEN MainSingle(ConvertSingleFile(f, cv, ex, input_path, output_path, env),
                    input_path)
    ELSE IF IsDir(f, input_path)
    THEN MainDirectory(ConvertDirectory(f, cv, ex, input_path, output_path,
                                        recursive, scan, envs),
                       input_path)
    ELSE Exit(1, "", <<>>, f, <<>>,
              <<Line("Error: Input path not found", input_path)>>, <<>>)

(***************************************************************************)
(* The paths and the filesystems of the model.                             *)
(***************************************************************************)
InDir == << <<"in">> >>

NbA == Append(InDir, <<"a", ".ipynb">>)

NbUpper == Append(InDir, <<"U", ".IPYNB">>)

SubDir == Append(InDir, <<"sub">>)

NbC == Append(SubDir, <<"a", ".ipynb">>)

\* a notebook document saved under another extension
NbTxt == Append(InDir, <<"nb", ".txt">>)

MissingNb == Append(InDir, <<"missing", ".ipynb">>)

MissingTxt == Append(InDir, <<"missing", ".txt">>)

NoDir == << <<"nodir">> >>

OutDir == << <<"out">> >>

DeepDir == Append(OutDir, <<"deep">>)

OutHtml == Append(OutDir, <<"r", ".html">>)

NoEntries == [p \in {} |-> DirEntry]

\* what is always there: the working directory, in/, in/sub/ and the
\* notebook documents in/nb.txt and in/U.IPYNB
BaseFs ==
    (<<>> :> DirEntry) @@ (InDir :> DirEntry) @@ (SubDir :> DirEntry)
    @@ (NbTxt :> FileEntry(NotebookData("nbA")))
    @@ (NbUpper :> FileEntry(NotebookData("nbB")))

\* in/a.ipynb: a notebook with image outputs, or a malformed file
ChoicesA == {NbA :> FileEntry(NotebookData("nbA")), NbA :> FileEntry(TextData)}

\* in/sub/a.ipynb: a notebook without image outputs, or a malformed file
ChoicesC == {NbC :> FileEntry(NotebookData("nbB")), NbC :> FileEntry(TextData)}

\* what else there is: nothing; out as a directory or as a regular file; or
\* something in the way of the writes of in/a.ipynb's conversion, a
\* directory at in/a.html or a regular file at in/a_files
ChoicesOther ==
    {NoEntries, OutDir :> DirEntry, OutDir :> FileEntry(TextData),
     WithSuffix(NbA, ".html") :> DirEntry,
     SidecarDir(WithSuffix(NbA, ".html")) :> FileEntry(TextData)}

\* in/a_files is there and holds a directory where the second image output
\* of in/a.ipynb goes
ResourceBlocked ==
    (SidecarDir(WithSuffix(NbA, ".html")) :> DirEntry)
       @@ (Append(SidecarDir(WithSuffix(NbA, ".html")), <<"output_1", ".png">>)
              :> DirEntry)

InitialFilesystems ==
    {BaseFs @@ a @@ c @@ o : a \in ChoicesA, c \in ChoicesC, o \in ChoicesOther}
       \cup {BaseFs @@ (NbA :> FileEntry(NotebookData("nbA")))
                    @@ (NbC :> FileEntry(NotebookData("nbB"))) @@ ResourceBlocked}

\* the converters constructed
Converters ==
    {Converter(TRUE, TRUE, FALSE, "classic"),
     Converter(FALSE, TRUE, FALSE, "lab"),
     Converter(TRUE, FALSE, TRUE, "reveal")}

\* the strings a caller of the constructor may pass as template
TemplateArgs == InstalledTemplates \cup {"fancy"}

\* the converters a program that imports the class may construct
ConstructedConverters == {Converter(TRUE, TRUE, FALSE, t) : t \in TemplateArgs}

\* the arguments of the calls
SingleInputs == {NbA, NbUpper, NbTxt, MissingNb, MissingTxt}

\* no output path, out/r.html, or the path of the notebook in/a.ipynb itself
SingleOutputs == {None, Some(OutHtml), Some(NbA)}

DirInputs == {InDir, NoDir, NbTxt}

DirOutputs == {None, Some(OutDir), Some(DeepDir)}

\* the positional argument and the -o option of the command line
MainInputs == {NbA, NbTxt, InDir, NoDir}

MainOutputs == {None, Some(OutHtml), Some(OutDir)}

\* what the kernel may do, for a converter that runs it
QuietEnv == ExecEnv(ExecTimeout, FALSE)

EnvsFor(cv) == IF cv.execute_notebook THEN ExecEnvs ELSE {QuietEnv}

\* what the kernel may do with the notebook main converts in file mode
MainEnvsFor(cv, f, input_path) ==
    IF IsFile(f, input_path) THEN EnvsFor(cv) ELSE {QuietEnv}

(***************************************************************************)
(* The state machine: calls on one converter, one after the other, or one  *)
(* run of main in a process of its own; further on, two invocations        *)
(* running at the same time, and the windows of the graphical front ends   *)
(* with their worker threads.                                              *)
(***************************************************************************)
VARIABLES
    fs,               \* the filesystem
    conv,             \* the converter's configuration
    extracts,         \* the exporter puts image outputs in resources['outputs']
    ncalls,           \* the calls made so far
    call,             \* the arguments of the last call
    before,           \* the filesystem when that call started
    ret,              \* how that call ended
    notebook_files,   \* convert_directory's enumeration
    attempts,         \* the iterations of convert_directory's loop
    ev,               \* the writes of the call, in order
    log,              \* the lines the call printed, in order
    exit_code,        \* the exit code of the process, when main was run
    prev,             \* the call before the last one and how it ended
    procs,            \* the invocations running at the same time
    toolkit,          \* the front end running: "tk", "qt", or "" for none
    selected_files,   \* self.selected_files
    settings,         \* the values shown by the settings widgets
    convert_enabled,  \* the Convert button can be pressed
    select_enabled,   \* Select File(s) and Select Folder can be pressed
    threads,          \* the worker threads started and not yet done with
    message_queue,    \* worker messages / signals waiting for the main thread
    delivered,        \* the ones the main thread handled in the current run
    nruns,            \* the workers started so far
    reenabled         \* the completions handled so far

\* the state of the sequential calls
callvars ==
    <<conv, ncalls, call, before, ret, notebook_files, attempts, ev, log, exit_code>>

\* the state of a front end
guivars ==
    <<toolkit, selected_files, settings, convert_enabled, select_enabled,
      threads, message_queue, delivered, nruns, reenabled>>

vars == <<fs, extracts, callvars, prev, procs, guivars>>

Call(op, input, output, recursive, env) ==
    [op |-> op, input |-> input, output |-> output, recursive |-> recursive,
     env |-> env]

Ret(state, raised, result) == [state |-> state, raised |-> raised, result |-> result]

\* no call made yet
NoCall == Call("", <<>>, None, FALSE, QuietEnv)

NoRet == Ret("none", "", <<>>)

\* no call was made before the last one
NoPrev == [call |-> NoCall, ret |-> NoRet]

\* no invocation runs beside another
NoProcs == procs = <<>>

\* no front end runs
NoGui ==
    /\ toolkit = ""
    /\ selected_files = <<>>
    /\ settings = <<>>
    /\ convert_enabled = FALSE
    /\ select_enabled = FALSE
    /\ threads = <<>>
    /\ message_queue = <<>>
    /\ delivered = <<>>
    /\ nruns = 0
    /\ reenabled = 0

\* no call made yet
NoCalls ==
    /\ ncalls = 0
    /\ call = NoCall
    /\ before = fs
    /\ ret = NoRet
    /\ notebook_files = <<>>
    /\ attempts = <<>>
    /\ ev = <<>>
    /\ log = <<>>
    /\ exit_code = None
    /\ prev = NoPrev

Init ==
    /\ fs \in InitialFilesystems
    /\ conv \in Converters
    /\ extracts \in BOOLEAN
    /\ NoCalls
    /\ NoProcs
    /\ NoGui

\* what a call of convert_single_file(input, output) does to the state
SingleFileCall(input, output, env) ==
    \E o \in {ConvertSingleFile(fs, conv, extracts, input, output, env)} :
        /\ ncalls' = ncalls + 1
        /\ call' = Call("single", input, output, FALSE, env)
        /\ before' = fs
        /\ fs' = o.fs
        /\ ret' = Ret(IF o.raised = "" THEN "returned" ELSE "raised",
                      o.raised, o.result)
        /\ ev' = o.ev
        /\ log' = o.log
        /\ notebook_files' = <<>>
        /\ attempts' = <<>>
        /\ exit_code' = None
        /\ UNCHANGED <<conv, extracts, procs, guivars>>

\* a call of convert_single_file(input, output)
CallConvertSingleFile(input, output, env) ==
    SingleFileCall(input, output, env) /\ UNCHANGED prev

\* what a call of convert_directory(input_dir, output, recursive) does to
\* the state
DirectoryCall(input_dir, output, recursive, scan, envs) ==
    \E o \in {ConvertDirectory(fs, conv, extracts, input_dir, output, recursive,
                               scan, envs)} :
        /\ ncalls' = ncalls + 1
        /\ call' = Call("directory", input_dir, output, recursive, QuietEnv)
        /\ before' = fs
        /\ fs' = o.fs
        /\ ret' = Ret(IF o.raised = "" THEN "returned" ELSE "raised",
                      o.raised, o.result)
        /\ ev' = o.ev
        /\ log' = o.log
        /\ notebook_files' = scan
        /\ attempts' = o.attempts
        /\ exit_code' = None
        /\ UNCHANGED <<conv, extracts, procs, guivars>>

\* a call of convert_directory(input_dir, output, recursive)
CallConvertDirectory(input_dir, output, recursive, scan, envs) ==
    DirectoryCall(input_dir, output, recursive, scan, envs) /\ UNCHANGED prev

\* a run of the command line on the arguments input, -o output and -r, the
\* flags being the ones the converter conv was built from
CallMain(input, output, recursive, env, scan, envs) ==
    \E o \in {Main(fs, conv, extracts, input, output, recursive, env, scan, envs)} :
        /\ ncalls' = ncalls + 1
        /\ call' = Call("main", input, output, recursive, env)
        /\ before' = fs
        /\ fs' = o.fs
        /\ ret' = Ret("exited", o.raised, o.result)
        /\ ev' = o.ev
        /\ log' = o.log
        /\ notebook_files' = scan
        /\ attempts' = o.attempts
        /\ exit_code' = Some(o.code)
        /\ UNCHANGED <<conv, extracts, prev, procs, guivars>>

\* calls are made while the bound allows, in a process that has not exited
MayCall == ncalls < MaxCalls /\ exit_code = None

\* main is what a process starts with
MayRunMain == ncalls = 0

\* a call of one of the two public methods
MethodCall ==
    \/ /\ MayCall
       /\ \E input \in SingleInputs, output \in SingleOutputs, env \in EnvsFor(conv) :
             CallConvertSingleFile(input, output, env)
    \/ /\ MayCall
       /\ \E input_dir \in DirInputs, output \in DirOutputs, recursive \in BOOLEAN :
             \E scan \in Scans(fs, input_dir, output, recursive) :
                \E envs \in [1..Len(scan) -> EnvsFor(conv)] :
                   CallConvertDirectory(input_dir, output, recursive, scan, envs)

Next ==
    \/ MethodCall
    \/ /\ MayRunMain
       /\ \E input \in MainInputs, output \in MainOutputs, recursive \in BOOLEAN :
             \E env \in MainEnvsFor(conv, fs, input),
                scan \in Scans(fs, input, output, recursive) :
                \E envs \in [1..Len(scan) -> EnvsFor(conv)] :
                   CallMain(input, output, recursive, env, scan, envs)

Spec == Init /\ [][Next]_vars

\* the class used from a program: the constructor called with any template
\* string, then the public methods
InitConstructed ==
    /\ fs \in InitialFilesystems
    /\ conv \in ConstructedConverters
    /\ extracts \in BOOLEAN
    /\ NoCalls
    /\ NoProcs
    /\ NoGui

SpecConstructed == InitConstructed /\ [][MethodCall]_vars

(***************************************************************************)
(* Calls after calls: one converter used for several calls in a row, each  *)
(* call remembered when the next one is made.                              *)
(***************************************************************************)
MaxRepeat == 2

\* in/a.ipynb and in/sub/a.ipynb are notebooks; out/ is there
RepeatFilesystems ==
    {BaseFs @@ (NbA :> FileEntry(NotebookData("nbA")))
            @@ (NbC :> FileEntry(NotebookData("nbB")))
            @@ (OutDir :> DirEntry)}

RepeatInputs == {NbA, NbTxt}

RepeatDirOutputs == {None, Some(OutDir)}

InitRepeat ==
    /\ fs \in RepeatFilesystems
    /\ conv \in Converters
    /\ extracts \in BOOLEAN
    /\ NoCalls
    /\ NoProcs
    /\ NoGui

\* the converter's last output path used again when none is given
RepeatSingleFileSticky(input, output, env) ==
    \E o \in {ConvertSingleFile(fs, conv, extracts, input,
                                 IF /\ output = None
                                    /\ ret.state = "returned"
                                    /\ call.op = "single"
                                 THEN ret.result ELSE output,
                                 env)} :
        /\ ncalls' = ncalls + 1
        /\ call' = Call("single", input, output, FALSE, env)
        /\ before' = fs
        /\ fs' = o.fs
        /\ ret' = Ret(IF o.raised = "" THEN "returned" ELSE "raised",
                      o.raised, o.result)
        /\ ev' = o.ev
        /\ log' = o.log
        /\ notebook_files' = <<>>
        /\ attempts' = <<>>
        /\ exit_code' = None
        /\ prev' = [call |-> call, ret |-> ret]
        /\ UNCHANGED <<conv, extracts, procs, guivars>>

\* one more call of convert_single_file on the same converter
RepeatSingleFile(input, output, env) ==
    /\ SingleFileCall(input, output, env)
    /\ prev' = [call |-> call, ret |-> ret]

\* one more call of convert_directory on the same converter
RepeatDirectory(input_dir, output, recursive, scan, envs) ==
    /\ DirectoryCall(input_dir, output, recursive, scan, envs)
    /\ prev' = [call |-> call, ret |-> ret]

MayRepeat == ncalls < MaxRepeat

NextRepeat ==
    \/ /\ MayRepeat
       /\ \E input \in RepeatInputs, output \in SingleOutputs, env \in EnvsFor(conv) :
             RepeatSingleFile(input, output, env)
    \/ /\ MayRepeat
       /\ \E output \in RepeatDirOutputs, recursive \in BOOLEAN :
             \E scan \in Scans(fs, InDir, output, recursive) :
                \E envs \in [1..Len(scan) -> EnvsFor(conv)] :
                   RepeatDirectory(InDir, output, recursive, scan, envs)

SpecRepeat == InitRepeat /\ [][NextRepeat]_vars

(***************************************************************************)
(* Two invocations of convert_single_file at the same time, each with a    *)
(* converter of its own built from the same options: the accesses to the   *)
(* filesystem of one interleave with those of the other.                   *)
(***************************************************************************)
NbD == Append(InDir, <<"d", ".ipynb">>)

OutHtm == Append(OutDir, <<"r", ".htm">>)

OutOther == Append(OutDir, <<"s", ".html">>)

\* in/a.ipynb and in/d.ipynb are notebooks with image outputs; out/ is there
ConcurrentFs ==
    BaseFs @@ (NbA :> FileEntry(NotebookData("nbA")))
           @@ (NbD :> FileEntry(NotebookData("nbD")))
           @@ (OutDir :> DirEntry)

ConcurrentInputs == {NbA, NbD, MissingNb}

ConcurrentOutputs == {OutHtml, OutHtm, OutOther}

\* an invocation: its arguments, where it is (pc), the page and the
\* resources it holds once rendered, the resources written so far and the
\* error it raised
Proc(input, out, pc, page, outputs, k, raised) ==
    [input |-> input, out |-> out, pc |-> pc, page |-> page,
     outputs |-> outputs, k |-> k, raised |-> raised]

\* the converters that do not run a kernel
QuietConverters == {cv \in Converters : ~cv.execute_notebook}

InitConcurrent ==
    /\ fs = ConcurrentFs
    /\ conv \in QuietConverters
    /\ extracts \in BOOLEAN
    /\ NoCalls
    /\ NoGui
    /\ \E i1, i2 \in ConcurrentInputs, o1, o2 \in ConcurrentOutputs :
          /\ o1 # o2
          /\ procs = <<Proc(i1, o1, "load", NoData, <<>>, 0, ""),
                       Proc(i2, o2, "load", NoData, <<>>, 0, "")>>

\* the invocation i has ended by raising err
Raise(i, err) == [procs EXCEPT ![i].pc = "done", ![i].raised = err]

\* lines 161-185: the checks of the input path, the load and the rendering
ProcLoad(i) ==
    /\ procs[i].pc = "load"
    /\ \E ld \in {ReadNotebook(fs, procs[i].input)} :
          procs' =
             IF ~Exists(fs, procs[i].input) THEN Raise(i, "FileNotFoundError")
             ELSE IF LowerSeq(Suffix(Name(procs[i].input))) # <<".ipynb">>
             THEN Raise(i, "ValueError")
             ELSE IF ld.err # "" THEN Raise(i, ld.err)
             ELSE LET rn == FromNotebookNode(conv, ld.nb, extracts)
                  IN  IF rn.err # "" THEN Raise(i, rn.err)
                      ELSE [procs EXCEPT ![i].pc = "page",
                                         ![i].page = EnhanceHtmlOutput(rn.body),
                                         ![i].outputs = rn.outputs]
    /\ UNCHANGED <<fs, extracts, callvars, prev, guivars>>

\* lines 188-189: the page written
ProcWritePage(i) ==
    /\ procs[i].pc = "page"
    /\ \E w \in {OpenWrite(fs, procs[i].out, procs[i].page)} :
          /\ fs' = w.fs
          /\ procs' = IF w.err # "" THEN Raise(i, w.err)
                      ELSE IF procs[i].outputs = <<>>
                      THEN [procs EXCEPT ![i].pc = "done"]
                      ELSE [procs EXCEPT ![i].pc = "mkdir"]
    /\ UNCHANGED <<extracts, callvars, prev, guivars>>

\* lines 193-194: the side-car directory made
ProcMakeSidecar(i) ==
    /\ procs[i].pc = "mkdir"
    /\ \E md \in {Mkdir(fs, SidecarDir(procs[i].out), FALSE, TRUE)} :
          /\ fs' = md.fs
          /\ procs' = IF md.err # "" THEN Raise(i, md.err)
                      ELSE [procs EXCEPT ![i].pc = "resource"]
    /\ UNCHANGED <<extracts, callvars, prev, guivars>>

\* lines 196-199: the next resource written
ProcWriteResource(i) ==
    /\ procs[i].pc = "resource"
    /\ \E w \in {OpenWrite(fs,
                            Append(SidecarDir(procs[i].out),
                                   procs[i].outputs[procs[i].k + 1].name),
                            procs[i].outputs[procs[i].k + 1].data)} :
          /\ fs' = w.fs
          /\ procs' = IF w.err # "" THEN Raise(i, w.err)
                      ELSE IF procs[i].k + 1 = Len(procs[i].outputs)
                      THEN [procs EXCEPT ![i].pc = "done", ![i].k = @ + 1]
                      ELSE [procs EXCEPT ![i].k = @ + 1]
    /\ UNCHANGED <<extracts, callvars, prev, guivars>>

NextConcurrent ==
    \E i \in {1, 2} :
        \/ ProcLoad(i)
        \/ ProcWritePage(i)
        \/ ProcMakeSidecar(i)
        \/ ProcWriteResource(i)

SpecConcurrent == InitConcurrent /\ [][NextConcurrent]_vars

(***************************************************************************)
(* The graphical front ends: the Tk window (NotebookConverterGUI, the same *)
(* in both Tk programs) and the Qt window (NotebookConverterQt), each with *)
(* the worker thread its Convert button starts.  The main thread runs the  *)
(* handlers of the user's actions and of the worker's messages; the worker *)
(* runs beside it.                                                         *)
(***************************************************************************)
MaxRuns == 2

\* the values of the settings widgets
GuiSettings(embed_images, include_input, execute_notebook, template, output_directory) ==
    [embed_images |-> embed_images, include_input |-> include_input,
     execute_notebook |-> execute_notebook, template |-> template,
     output_directory |-> output_directory]

\* the widgets as the windows are built: output directory empty
DefaultSettings == GuiSettings(TRUE, TRUE, FALSE, "classic", None)

\* the values the user gives the widgets: as built, or code cells off and
\* the output directory out/
SettingsChoices ==
    {DefaultSettings, GuiSettings(TRUE, FALSE, FALSE, "classic", Some(OutDir))}

\* in/a.ipynb is a notebook, in/sub/a.ipynb is malformed, out/ is there
GuiFs ==
    BaseFs @@ (NbA :> FileEntry(NotebookData("nbA")))
           @@ (NbC :> FileEntry(TextData))
           @@ (OutDir :> DirEntry)

\* what the user picks in the file dialog
Selections == {<<NbA, NbC>>}

\* what the user picks in the folder dialog
Folders == {SubDir, OutDir}

\* a worker thread: the files and settings it works with, where it is
\* (pc: "start", "loop", then "done", or "failed" when the run failed as a
\* whole), the file it is at, what converted and what failed, and the
\* selection and settings there were when Convert was pressed
Worker(files, sets, pc, i, converted, failed, pressed_files, pressed_settings) ==
    [files |-> files, settings |-> sets, pc |-> pc, i |-> i,
     converted |-> converted, failed |-> failed,
     pressed_files |-> pressed_files, pressed_settings |-> pressed_settings]

\* a message of the worker to the main thread: a string put on the queue
\* (Tk), a progress or finished signal (Qt)
Msg(kind, path, ok, n) == [kind |-> kind, path |-> path, ok |-> ok, n |-> n]

EnableButton == Msg("ENABLE_BUTTON", <<>>, TRUE, 0)

\* finished.emit(success, message)
Finished(ok, n) == Msg("finished", <<>>, ok, n)

\* the message that makes the main thread enable Convert again
IsCompletion(m) == m.kind \in {"ENABLE_BUTTON", "finished"}

\* NotebookToHTMLConverter(embed_images=..., include_input=..., ...)
ConverterFrom(sets) ==
    Converter(sets.embed_images, sets.include_input, sets.execute_notebook,
              sets.template)

InitGui ==
    /\ fs = GuiFs
    /\ conv = ConverterFrom(DefaultSettings)
    /\ extracts = FALSE
    /\ NoCalls
    /\ NoProcs
    /\ toolkit \in {"tk", "qt"}
    /\ selected_files = <<>>
    /\ settings = DefaultSettings
    /\ convert_enabled = (toolkit = "tk")
    /\ select_enabled = TRUE
    /\ threads = <<>>
    /\ message_queue = <<>>
    /\ delivered = <<>>
    /\ nruns = 0
    /\ reenabled = 0

\* what no handler of the windows touches
GuiFrame == UNCHANGED <<extracts, callvars, prev, procs, toolkit>>

\* the selection replaced: Qt also enables Convert
Select(files) ==
    /\ selected_files' = files
    /\ convert_enabled' = IF toolkit = "qt" THEN TRUE ELSE convert_enabled
    /\ UNCHANGED <<fs, settings, select_enabled, threads, message_queue,
                   delivered, nruns, reenabled>>
    /\ GuiFrame

\* select_files: the dialog closed with files chosen
SelectFiles ==
    /\ select_enabled
    /\ \E files \in Selections : Select(files)

\* select_folder: the notebooks found under the folder chosen, if any
SelectFolder ==
    /\ select_enabled
    /\ \E folder \in Folders :
          \E files \in Orders(Glob(fs, folder, TRUE)) :
             files # <<>> /\ Select(files)

\* clear_files / clear_selection: Qt also disables Convert
ClearSelection ==
    /\ selected_files' = <<>>
    /\ convert_enabled' = IF toolkit = "qt" THEN FALSE ELSE convert_enabled
    /\ UNCHANGED <<fs, settings, select_enabled, threads, message_queue,
                   delivered, nruns, reenabled>>
    /\ GuiFrame

\* a check box toggled, the output directory chosen or emptied
ChangeSetting ==
    /\ \E s \in SettingsChoices \ {settings} : settings' = s
    /\ UNCHANGED <<fs, selected_files, convert_enabled, select_enabled, threads,
                   message_queue, delivered, nruns, reenabled>>
    /\ GuiFrame

\* the worker start_conversion makes: Qt's gets the selection and a
\* dictionary of the settings, Tk's gets nothing and reads them itself
NewWorker ==
    IF toolkit = "qt"
    THEN Worker(selected_files, settings, "start", 1, <<>>, <<>>,
                selected_files, settings)
    ELSE Worker(<<>>, <<>>, "start", 1, <<>>, <<>>, selected_files, settings)

\* start_conversion with the Convert button left enabled
StartConversionKeepEnabled ==
    /\ convert_enabled
    /\ nruns < MaxRuns
    /\ selected_files # <<>>
    /\ threads' = Append(threads, NewWorker)
    /\ nruns' = nruns + 1
    /\ delivered' = <<>>
    /\ UNCHANGED <<fs, selected_files, settings, message_queue, reenabled,
                   convert_enabled, select_enabled>>
    /\ GuiFrame

\* start_conversion: Convert pressed with a selection
StartConversion ==
    /\ convert_enabled
    /\ nruns < MaxRuns
    /\ selected_files # <<>>
    /\ convert_enabled' = FALSE
    /\ select_enabled' = IF toolkit = "qt" THEN FALSE ELSE select_enabled
    /\ threads' = Append(threads, NewWorker)
    /\ nruns' = nruns + 1
    /\ delivered' = <<>>
    /\ UNCHANGED <<fs, selected_files, settings, message_queue, reenabled>>
    /\ GuiFrame

\* the messages of a run that fails as a whole
WholeRunFailed ==
    IF toolkit = "qt" THEN <<Finished(FALSE, 0)>>
    ELSE <<Msg("Conversion failed", <<>>, FALSE, 0), EnableButton>>

\* the worker begins: the converter is constructed, which may fail; Tk's
\* worker reads the settings and the selection now
WorkerBegin(k) ==
    /\ threads[k].pc = "start"
    /\ \E fails \in BOOLEAN :
          IF fails
          THEN /\ threads' = [threads EXCEPT ![k].pc = "failed"]
               /\ message_queue' = message_queue \o WholeRunFailed
          ELSE /\ threads' =
                     IF toolkit = "qt" THEN [threads EXCEPT ![k].pc = "loop"]
                     ELSE [threads EXCEPT ![k].pc = "loop",
                                          ![k].files = selected_files,
                                          ![k].settings = settings]
               /\ message_queue' = message_queue
    /\ UNCHANGED <<fs, selected_files, settings, convert_enabled, select_enabled,
                   delivered, nruns, reenabled>>
    /\ GuiFrame

\* the output path the worker gives convert_single_file: Tk's passes none
\* without an output directory, Qt's always passes one
WorkerOutput(file, sets) ==
    IF sets.output_directory # None
    THEN Some(Append(sets.output_directory[1], Stem(Name(file)) \o <<".html">>))
    ELSE IF toolkit = "qt" THEN Some(WithSuffix(file, ".html"))
    ELSE None

\* html_file.parent.mkdir(parents=True, exist_ok=True), in Tk's worker when
\* there is an output directory
WorkerMkdir(f, sets) ==
    IF toolkit = "tk" /\ sets.output_directory # None
    THEN Mkdir(f, sets.output_directory[1], TRUE, TRUE)
    ELSE FsResult("", f, <<>>)

\* one file of the loop: the result of the mkdir and of convert_single_file
WorkerConvertFile(f, ex, file, sets) ==
    LET md == WorkerMkdir(f, sets)
    IN  IF md.err # "" THEN Outcome(md.err, None, md.fs, md.ev, <<>>)
        ELSE ConvertSingleFile(md.fs, ConverterFrom(sets), ex, file,
                               WorkerOutput(file, sets), QuietEnv)

\* the messages of one file: it is announced, then reported converted or
\* failed
FileMessages(file, o) ==
    <<Msg("Converting", file, TRUE, 0),
      IF o.raised = "" THEN Msg("Converted", file, TRUE, 0)
      ELSE Msg("Error", file, FALSE, 0)>>

\* one iteration of the worker's loop
WorkerConvert(k) ==
    /\ threads[k].pc = "loop"
    /\ threads[k].i <= Len(threads[k].files)
    /\ \E o \in {WorkerConvertFile(fs, extracts, threads[k].files[threads[k].i],
                                     threads[k].settings)} :
          /\ fs' = o.fs
          /\ message_queue' =
                message_queue \o FileMessages(threads[k].files[threads[k].i], o)
          /\ threads' =
                IF o.raised = ""
                THEN [threads EXCEPT ![k].i = @ + 1,
                                     ![k].converted = Append(@, threads[k].files[threads[k].i])]
                ELSE [threads EXCEPT ![k].i = @ + 1,
                                     ![k].failed = Append(@, threads[k].files[threads[k].i])]
    /\ UNCHANGED <<selected_files, settings, convert_enabled, select_enabled,
                   delivered, nruns, reenabled>>
    /\ GuiFrame

\* the worker's report without the message that enables the button when a
\* file failed
RunReportSilentOnFailure(w) ==
    IF toolkit = "qt"
    THEN IF w.failed = <<>> THEN <<Finished(TRUE, Len(w.converted))>> ELSE <<>>
    ELSE IF w.failed = <<>>
    THEN <<Msg("Summary", <<>>, TRUE, Len(w.converted)), EnableButton>>
    ELSE <<Msg("Summary", <<>>, FALSE, Len(w.converted))>>

\* the end of the worker's run: Tk's queues the summary and, in its
\* finally clause, ENABLE_BUTTON; Qt's emits finished, with success when no
\* file failed
RunReport(w) ==
    IF toolkit = "qt"
    THEN <<Finished(w.failed = <<>>, Len(w.converted))>>
    ELSE <<Msg("Summary", <<>>, w.failed = <<>>, Len(w.converted)), EnableButton>>

\* the loop is over: the report, and the thread ends
WorkerFinish(k) ==
    /\ threads[k].pc = "loop"
    /\ threads[k].i > Len(threads[k].files)
    /\ threads' = [threads EXCEPT ![k].pc = "done"]
    /\ message_queue' = message_queue \o RunReport(threads[k])
    /\ UNCHANGED <<fs, selected_files, settings, convert_enabled, select_enabled,
                   delivered, nruns, reenabled>>
    /\ GuiFrame

\* a step of a worker thread
WorkerStep == \E k \in DOMAIN threads : WorkerBegin(k) \/ WorkerConvert(k) \/ WorkerFinish(k)

\* the threads that have not ended
Live(ts) == SelectSeq(ts, LAMBDA w : w.pc \notin {"done", "failed"})

\* process_messages (Tk): the queue is emptied, every message logged in
\* turn, ENABLE_BUTTON enabling Convert
ProcessMessages ==
    /\ toolkit = "tk"
    /\ message_queue # <<>>
    /\ message_queue' = <<>>
    /\ \E done \in {SelectSeq(message_queue, IsCompletion)} :
          /\ convert_enabled' = IF done # <<>> THEN TRUE ELSE convert_enabled
          /\ reenabled' = reenabled + Len(done)
          /\ threads' = IF done # <<>> THEN Live(threads) ELSE threads
          /\ delivered' = IF done # <<>> THEN <<>> ELSE delivered \o message_queue
    /\ UNCHANGED <<fs, selected_files, settings, select_enabled, nruns>>
    /\ GuiFrame

\* the next signal of the worker handled by the main thread (Qt): progress
\* is logged, finished runs conversion_finished, which enables the buttons
DeliverSignal ==
    /\ toolkit = "qt"
    /\ message_queue # <<>>
    /\ message_queue' = Tail(message_queue)
    /\ IF IsCompletion(Head(message_queue))
       THEN /\ convert_enabled' = TRUE
            /\ select_enabled' = TRUE
            /\ reenabled' = reenabled + 1
            /\ threads' = Live(threads)
            /\ delivered' = <<>>
       ELSE /\ delivered' = Append(delivered, Head(message_queue))
            /\ UNCHANGED <<convert_enabled, select_enabled, reenabled, threads>>
    /\ UNCHANGED <<fs, selected_files, settings, nruns>>
    /\ GuiFrame

NextGui ==
    \/ SelectFiles
    \/ SelectFolder
    \/ ClearSelection
    \/ ChangeSetting
    \/ StartConversion
    \/ WorkerStep
    \/ ProcessMessages
    \/ DeliverSignal

SpecGui == InitGui /\ [][NextGui]_vars

\* the operating system runs a started thread, Tk calls process_messages
\* every 100 ms, Qt's event loop delivers the signals queued for it
SpecGuiFair ==
    /\ SpecGui
    /\ WF_vars(WorkerStep)
    /\ WF_vars(ProcessMessages)
    /\ WF_vars(DeliverSignal)

(***************************************************************************)
(* What the claims speak of.                                               *)
(***************************************************************************)
Range(q) == {q[i] : i \in DOMAIN q}

\* the file at p holds a notebook document nbformat can read
IsNotebookFile(f, p) ==
    IsFile(f, p) /\ f[p].data.tag = "nb" /\ f[p].data.id \in ValidNotebooks

\* the name of p ends with .ipynb, in either case
HasNotebookExtension(p) == Lower(Name(p)[Len(Name(p))]) = ".ipynb"

\* the output path of the last convert_single_file call
ExpectedOutput ==
    IF call.output = None THEN WithSuffix(call.input, ".html") ELSE call.output[1]

\* the resource mapping the exporter returns for the notebook at p
ResourcesOf(f, p) == IF extracts THEN ImageOutputs(f[p].data.id) ELSE <<>>

\* nothing in the filesystem f stands in the way of writing the page at out
\* and the resources res beside it
Writable(f, out, res) ==
    /\ IsDir(f, Parent(out))
    /\ ~IsDir(f, out)
    /\ res # <<>> => ~IsFile(f, SidecarDir(out))
    /\ \A k \in DOMAIN res : ~IsDir(f, Append(SidecarDir(out), res[k]))

\* the page written at out is the rendering of the notebook document id
IsPageOf(f, out, id) ==
    IsFile(f, out) /\ f[out].data.tag = "html" /\ f[out].data.id = id

\* the writes of e that write a file whose name ends with .html
HtmlWrites(e) ==
    {i \in DOMAIN e : e[i].op = "write" /\ Name(e[i].path)[Len(Name(e[i].path))] = ".html"}

Succeeded(a) == a.raised = ""

OutputsOf(as) == [i \in DOMAIN as |-> as[i].out]

\* the kernel run of the last convert_single_file call failed
ExecFailed ==
    conv.execute_notebook /\ (call.env.kerr \/ call.env.dur > ExecTimeout)

(***************************************************************************)
(* C1: a batch over an enumeration with successes and failures does not    *)
(* raise, attempts every enumerated notebook in order, the ones after a    *)
(* failing one included, and returns exactly the output paths of the       *)
(* notebooks that converted, none for a failed one.                        *)
(***************************************************************************)
C1_BatchBestEffort ==
    (call.op = "directory" /\ notebook_files # <<>>) =>
        /\ ret.state = "returned"
        /\ Len(attempts) = Len(notebook_files)
        /\ \A i \in DOMAIN attempts : attempts[i].nb = notebook_files[i]
        /\ ret.result = OutputsOf(SelectSeq(attempts, Succeeded))
        /\ \A i \in DOMAIN attempts :
              /\ ~IsNotebookFile(before, attempts[i].nb)
                    => attempts[i].out \notin Range(ret.result)
              /\ attempts[i].out \in Range(ret.result)
                    => IsPageOf(fs, attempts[i].out, before[attempts[i].nb].data.id)

\* a batch in which a notebook fails and a later one converts
C1_Witness ==
    /\ call.op = "directory"
    /\ ret.state = "returned"
    /\ \E i, j \in DOMAIN attempts :
          /\ i < j
          /\ attempts[i].raised # ""
          /\ attempts[j].raised = ""
          /\ ret.result = <<attempts[j].out>>

\* the output directory is given and it, or an ancestor of it, is a
\* regular file
OutputDirBlocked(f, output) ==
    output # None /\ (IsFile(f, output[1]) \/ BlockedByFile(f, output[1]))

(***************************************************************************)
(* C2, as claimed: convert_directory raises only for a root that is not an *)
(* existing directory, with NotADirectoryError, and returns a list for     *)
(* every existing root whatever output_dir is given.                       *)
(***************************************************************************)
C2_RaisesOnlyForRoot ==
    call.op = "directory" =>
        /\ ret.state = "raised"
              => ~IsDir(before, call.input) /\ ret.raised = "NotADirectoryError"
        /\ IsDir(before, call.input) => ret.state = "returned"

(***************************************************************************)
(* C2, amended: convert_directory raises NotADirectoryError for a root     *)
(* that is not an existing directory; for an existing root it raises       *)
(* exactly when the output directory given cannot be made (it or an        *)
(* ancestor is a regular file: mkdir's FileExistsError or                  *)
(* NotADirectoryError), and returns a list otherwise, whatever the state   *)
(* of the individual files.                                                *)
(***************************************************************************)
C2_RaisesForRootOrOutputDir ==
    call.op = "directory" =>
        /\ ret.state \in {"raised", "returned"}
        /\ ~IsDir(before, call.input)
              => ret.state = "raised" /\ ret.raised = "NotADirectoryError"
        /\ IsDir(before, call.input)
              => /\ ret.state = "raised" <=> OutputDirBlocked(before, call.output)
                 /\ ret.state = "raised"
                       => ret.raised \in {"FileExistsError", "NotADirectoryError"}

\* an existing root, an output directory that is a regular file
C2_Witness ==
    /\ call.op = "directory"
    /\ IsDir(before, call.input)
    /\ call.output # None
    /\ IsFile(before, call.output[1])
    /\ ret.raised = "FileExistsError"

(***************************************************************************)
(* C3: convert_single_file checks its preconditions before any work: a     *)
(* path that does not exist fails with FileNotFoundError, whatever its     *)
(* extension; a path that exists without the notebook extension fails with *)
(* ValueError; nothing is printed or written before either.                *)
(***************************************************************************)
C3_PreconditionsFirst ==
    call.op = "single" =>
        /\ ~Exists(before, call.input)
              => ret.raised = "FileNotFoundError" /\ log = <<>> /\ ev = <<>>
        /\ (Exists(before, call.input) /\ ~HasNotebookExtension(call.input))
              => ret.raised = "ValueError" /\ log = <<>> /\ ev = <<>>

\* a missing path with a wrong extension is reported as not found
C3_Witness ==
    /\ call.op = "single"
    /\ ~Exists(before, call.input)
    /\ ~HasNotebookExtension(call.input)
    /\ ret.raised = "FileNotFoundError"

(***************************************************************************)
(* C4: given an existing file whose extension is not .ipynb,               *)
(* convert_single_file fails and leaves the filesystem as it was, with or  *)
(* without an output path.                                                 *)
(***************************************************************************)
C4_WrongExtensionWritesNothing ==
    (call.op = "single" /\ IsFile(before, call.input)
        /\ ~HasNotebookExtension(call.input)) =>
        /\ ret.state = "raised"
        /\ fs = before
        /\ ev = <<>>

\* a notebook document under a wrong extension, an output path that could
\* have been written
C4_Witness ==
    /\ call.op = "single"
    /\ call.input = NbTxt
    /\ IsNotebookFile(before, NbTxt)
    /\ call.output # None
    /\ IsDir(before, Parent(call.output[1]))
    /\ ret.state = "raised"
    /\ ~Exists(fs, call.output[1])

(***************************************************************************)
(* C5: given a root that is not an existing directory, convert_directory   *)
(* fails with NotADirectoryError before any write: the filesystem is as it *)
(* was and the output directory given is not made.                         *)
(***************************************************************************)
C5_InvalidRootWritesNothing ==
    (call.op = "directory" /\ ~IsDir(before, call.input)) =>
        /\ ret.raised = "NotADirectoryError"
        /\ fs = before
        /\ ev = <<>>
        /\ call.output # None
              => (Exists(fs, call.output[1]) <=> Exists(before, call.output[1]))

\* a missing root, an output directory that is not there and could be made
C5_Witness ==
    /\ call.op = "directory"
    /\ ~Exists(before, call.input)
    /\ call.output # None
    /\ ~Exists(before, call.output[1])
    /\ ~BlockedByFile(before, call.output[1])
    /\ ret.raised = "NotADirectoryError"
    /\ ~Exists(fs, call.output[1])

(***************************************************************************)
(* C6: for a valid notebook and no output path, convert_single_file writes *)
(* exactly one HTML file, at the input path with its extension replaced by *)
(* .html, and returns that path (the path being writable).                 *)
(***************************************************************************)
C6_DefaultOutputPath ==
    (call.op = "single" /\ call.output = None
        /\ IsNotebookFile(before, call.input)
        /\ HasNotebookExtension(call.input)) =>
        LET expected == WithSuffix(call.input, ".html")
        IN  /\ \A i \in HtmlWrites(ev) : ev[i].path = expected
            /\ Cardinality(HtmlWrites(ev)) <= 1
            /\ ret.state = "returned"
                  => /\ ret.result = Some(expected)
                     /\ Cardinality(HtmlWrites(ev)) = 1
                     /\ IsPageOf(fs, expected, before[call.input].data.id)
            /\ Writable(before, expected, ResourcesOf(before, call.input))
                  => ret.state = "returned"

\* in/a.ipynb converted to in/a.html, which was not there
C6_Witness ==
    /\ call.op = "single"
    /\ call.input = NbA
    /\ call.output = None
    /\ ret.result = Some(Append(InDir, <<"a", ".html">>))
    /\ ~Exists(before, Append(InDir, <<"a", ".html">>))
    /\ IsFile(fs, Append(InDir, <<"a", ".html">>))

(***************************************************************************)
(* C7, as claimed: given an output path whose parent directories do not    *)
(* exist, convert_single_file makes them and writes the HTML file there.   *)
(***************************************************************************)
C7_MissingParentsCreated ==
    (call.op = "single" /\ call.output # None
        /\ IsNotebookFile(before, call.input)
        /\ HasNotebookExtension(call.input)
        /\ ~Exists(before, Parent(ExpectedOutput))
        /\ ~BlockedByFile(before, ExpectedOutput)) =>
        /\ ret.state = "returned"
        /\ IsDir(fs, Parent(ExpectedOutput))
        /\ IsFile(fs, ExpectedOutput)

(***************************************************************************)
(* C8: when the converter executes the notebook and the kernel run fails,  *)
(* by a cell error or by passing the timeout, convert_single_file still    *)
(* renders the notebook with the outputs it has, writes the HTML file and  *)
(* returns its path.                                                       *)
(***************************************************************************)
C8_ExecutionFailureNotFatal ==
    (call.op = "single" /\ ExecFailed
        /\ IsNotebookFile(before, call.input)
        /\ HasNotebookExtension(call.input)) =>
        /\ \E i \in DOMAIN log : log[i].msg = "Warning: Failed to execute notebook"
        /\ Writable(before, ExpectedOutput, ResourcesOf(before, call.input))
              => /\ ret.state = "returned"
                 /\ ret.result = Some(ExpectedOutput)
                 /\ IsPageOf(fs, ExpectedOutput, before[call.input].data.id)
                 /\ fs[ExpectedOutput].data.outs = "partial"

\* a run that passes the timeout, and the page written all the same
C8_Witness ==
    /\ call.op = "single"
    /\ conv.execute_notebook
    /\ call.env.dur > ExecTimeout
    /\ ret.state = "returned"
    /\ IsFile(fs, ExpectedOutput)
    /\ fs[ExpectedOutput].data.outs = "partial"

(***************************************************************************)
(* C9: after a successful convert_single_file every resource of the        *)
(* exporter's mapping is a file named by its key inside <output-stem>_files*)
(* beside the HTML file, and the call makes or touches that directory only *)
(* when the mapping holds a resource.                                      *)
(***************************************************************************)
C9_SidecarHoldsResources ==
    (call.op = "single" /\ ret.state = "returned") =>
        LET out == ret.result[1]
            side == Append(Parent(out), Stem(Name(out)) \o <<"_files">>)
            res == ResourcesOf(before, call.input)
        IN  /\ \A k \in DOMAIN res :
                  /\ IsFile(fs, Append(side, res[k]))
                  /\ fs[Append(side, res[k])].data
                        = ImageData(before[call.input].data.id, res[k])
            /\ res # <<>> => IsDir(fs, side)
            /\ res = <<>>
                  => \A i \in DOMAIN ev :
                        ev[i].path # side /\ ~IsUnder(ev[i].path, side)
            /\ \A i \in DOMAIN ev :
                  ev[i].path \in {out, side} \/ Parent(ev[i].path) = side

\* the two image outputs of in/a.ipynb written into a new in/a_files
C9_Witness ==
    /\ call.op = "single"
    /\ call.input = NbA
    /\ ret.state = "returned"
    /\ ~Exists(before, SidecarDir(ret.result[1]))
    /\ IsDir(fs, SidecarDir(ret.result[1]))
    /\ IsFile(fs, Append(SidecarDir(ret.result[1]), <<"output_0", ".png">>))
    /\ IsFile(fs, Append(SidecarDir(ret.result[1]), <<"output_1", ".png">>))

(***************************************************************************)
(* C10, as claimed: converting a notebook that has an image output with    *)
(* embed_images false produces the side-car directory holding that image   *)
(* file.                                                                   *)
(***************************************************************************)
C10_NoEmbedWritesSidecar ==
    (call.op = "single" /\ ret.state = "returned" /\ ~conv.embed_images
        /\ ImageOutputs(before[call.input].data.id) # <<>>) =>
        LET side == SidecarDir(ret.result[1])
            imgs == ImageOutputs(before[call.input].data.id)
        IN  /\ IsDir(fs, side)
            /\ \A k \in DOMAIN imgs : IsFile(fs, Append(side, imgs[k]))

\* the paths at which the filesystems f and g differ
Changed(f, g) ==
    {p \in DOMAIN f \cup DOMAIN g :
        \/ p \notin DOMAIN f
        \/ p \notin DOMAIN g
        \/ f[p] # g[p]}

\* the paths a convert_single_file call that writes the page at out may
\* touch: the page, its side-car directory and the files in it
MayTouch(out) ==
    {p \in DOMAIN fs \cup DOMAIN before :
        p = out \/ p = SidecarDir(out) \/ Parent(p) = SidecarDir(out)}

\* the frame of a convert_single_file call, but for the input notebook
SingleFileFrame ==
    /\ Changed(before, fs) \subseteq MayTouch(ExpectedOutput)
    /\ \A i \in DOMAIN ev : ev[i].path \in MayTouch(ExpectedOutput)
    /\ \A p \in DOMAIN before : p \in DOMAIN fs
    /\ \A p \in Changed(before, fs) :
          \/ p = ExpectedOutput /\ IsFile(fs, p) /\ fs[p].data.tag = "html"
          \/ p = SidecarDir(ExpectedOutput) /\ IsDir(fs, p)
          \/ Parent(p) = SidecarDir(ExpectedOutput) /\ IsFile(fs, p)
                /\ fs[p].data.tag = "bin"
    /\ ret.state = "returned"
          => /\ Cardinality({i \in DOMAIN ev : ev[i].path = ExpectedOutput}) = 1
             /\ IsFile(fs, ExpectedOutput)
             /\ fs[ExpectedOutput].data.tag = "html"
             /\ \A p \in DOMAIN fs :
                   fs[p].data.tag = "html" /\ p # ExpectedOutput
                      => p \in DOMAIN before /\ before[p] = fs[p]

(***************************************************************************)
(* C11, as claimed: a convert_single_file call changes nothing but the     *)
(* HTML file at the resolved output path, written exactly once when the    *)
(* call returns, and the resource files of its side-car directory; nothing *)
(* is deleted, and the input notebook is left as it was.                   *)
(***************************************************************************)
C11_OnlyPageAndResources ==
    call.op = "single" =>
        /\ SingleFileFrame
        /\ Exists(before, call.input) => fs[call.input] = before[call.input]

(***************************************************************************)
(* C11, amended: a convert_single_file call changes nothing but the HTML   *)
(* file at the resolved output path, written exactly once when the call    *)
(* returns, and the resource files of its side-car directory; nothing is   *)
(* deleted, and the input notebook is left as it was unless the output     *)
(* path given is the path of the input notebook itself.                    *)
(***************************************************************************)
C11_OnlyPageAndResourcesUnlessAliased ==
    call.op = "single" =>
        /\ SingleFileFrame
        /\ (Exists(before, call.input) /\ ExpectedOutput # call.input)
              => fs[call.input] = before[call.input]

\* a conversion that wrote the page and two resources and left the
\* notebook as it was
C11_Witness ==
    /\ call.op = "single"
    /\ ret.state = "returned"
    /\ ExpectedOutput # call.input
    /\ Cardinality(Changed(before, fs)) = 4
    /\ fs[call.input] = before[call.input]

\* the root of the outputs of the last convert_directory call
BatchOutputDir == IF call.output = None THEN call.input ELSE call.output[1]

\* convert_single_file was entered for the notebook nb
Entered(nb) == \E i \in DOMAIN log : log[i] = Line("Converting", nb)

\* the directory d was there when the k-th write of the call was made
ThereBefore(d, k) ==
    IsDir(before, d) \/ \E j \in 1..(k - 1) : ev[j] = Event("mkdir", d)

(***************************************************************************)
(* C12: in convert_directory the output path of each enumerated notebook   *)
(* is output_dir, or input_dir when none is given, joined with the path of *)
(* the notebook relative to input_dir with its extension replaced by       *)
(* .html; every directory above that path is there when the notebook's     *)
(* conversion is entered and before its page is written.                   *)
(***************************************************************************)
C12_MirroredOutputPaths ==
    call.op = "directory" =>
        \A i \in DOMAIN attempts :
            LET nb == attempts[i].nb
                rel == SubSeq(nb, Len(call.input) + 1, Len(nb))
                out == BatchOutputDir
                          \o Append(SubSeq(rel, 1, Len(rel) - 1),
                                    Stem(rel[Len(rel)]) \o <<".html">>)
            IN  /\ attempts[i].out = out
                /\ Entered(nb) => \A d \in Ancestors(out) : IsDir(fs, d)
                /\ \A k \in DOMAIN ev :
                      ev[k] = Event("write", out)
                         => \A d \in Ancestors(out) : ThereBefore(d, k)

\* in/sub/a.ipynb converted to out/sub/a.html, out/ not being there before
C12_Witness ==
    /\ call.op = "directory"
    /\ call.recursive
    /\ call.output = Some(OutDir)
    /\ ~Exists(before, OutDir)
    /\ \E i \in DOMAIN attempts :
          /\ attempts[i].nb = NbC
          /\ attempts[i].raised = ""
          /\ attempts[i].out = Append(Append(OutDir, <<"sub">>), <<"a", ".html">>)
          /\ IsFile(fs, attempts[i].out)

\* p is where a call with the flag recursive looks: a direct child of dir,
\* or with recursive anything below dir
InScope(p, dir, recursive) ==
    /\ Len(p) > Len(dir)
    /\ \A k \in 1..Len(dir) : p[k] = dir[k]
    /\ recursive \/ Len(p) = Len(dir) + 1

FileMode == call.op = "main" /\ IsFile(before, call.input)

DirectoryMode == call.op = "main" /\ IsDir(before, call.input)

\* the output path given is of the other kind than the input path
KindMismatch ==
    /\ call.output # None
    /\ \/ IsFile(before, call.input) /\ IsDir(before, call.output[1])
       \/ IsDir(before, call.input) /\ IsFile(before, call.output[1])

\* the lines of l that report an error or a failure
ErrorLines(l) ==
    {i \in DOMAIN l :
        l[i].msg \in {"Error converting", "Failed to convert", "Error:",
                      "Error: Input path not found"}}

\* the final reports of l
CountLines(l) == {i \in DOMAIN l : l[i].msg = "Successfully converted notebook(s)"}

(***************************************************************************)
(* C14: main exits with code 0 when the conversion it was asked for        *)
(* succeeds (the page is written in file mode, convert_directory returns   *)
(* in directory mode) and with code 1 on every top-level failure: an input *)
(* path that is neither a file nor a directory, an output path of the      *)
(* other kind than the input, any exception of the conversion call.        *)
(***************************************************************************)
C14_ExitCodes ==
    call.op = "main" =>
        /\ exit_code \in {Some(0), Some(1)}
        /\ exit_code = Some(0) <=> ((FileMode \/ DirectoryMode) /\ ret.raised = "")
        /\ (FileMode /\ exit_code = Some(0))
              => IsFile(fs, ExpectedOutput) /\ fs[ExpectedOutput].data.tag = "html"
        /\ (~IsFile(before, call.input) /\ ~IsDir(before, call.input))
              => exit_code = Some(1) /\ fs = before
        /\ KindMismatch => exit_code = Some(1)
        /\ (FileMode /\ ~IsNotebookFile(before, call.input)) => exit_code = Some(1)
        /\ (FileMode /\ ~HasNotebookExtension(call.input)) => exit_code = Some(1)

\* a notebook given with an existing directory as output path: exit code 1
C14_Witness ==
    /\ FileMode
    /\ IsNotebookFile(before, call.input)
    /\ HasNotebookExtension(call.input)
    /\ call.output # None
    /\ IsDir(before, call.output[1])
    /\ ret.raised = "IsADirectoryError"
    /\ exit_code = Some(1)

(***************************************************************************)
(* C15, as claimed: when the conversion of file mode fails, main prints    *)
(* exactly one error line and exits with code 1.                           *)
(***************************************************************************)
C15_OneErrorLine ==
    (FileMode /\ ret.raised # "") =>
        /\ exit_code = Some(1)
        /\ Cardinality(ErrorLines(log)) = 1

(***************************************************************************)
(* C16, as claimed: in directory mode main always ends by printing the     *)
(* final count, the count is the number of notebooks converted, and the    *)
(* exit code is 0, however many notebooks failed.                          *)
(***************************************************************************)
C16_AlwaysReportsCount ==
    DirectoryMode =>
        /\ exit_code = Some(0)
        /\ log # <<>>
        /\ log[Len(log)] = CountLine("Successfully converted notebook(s)",
                                     Cardinality({i \in DOMAIN attempts :
                                                     attempts[i].raised = ""}))

(***************************************************************************)
(* C16, amended: in directory mode, when the output directory given can be *)
(* made, main ends by printing the final count, once, as its last line;    *)
(* the count is the number of notebooks converted and the exit code is 0,  *)
(* however many notebooks failed, all of them included.  When the output   *)
(* directory cannot be made, no count is printed and the exit code is 1.   *)
(***************************************************************************)
C16_ReportsCountUnlessOutputBlocked ==
    DirectoryMode =>
        IF OutputDirBlocked(before, call.output)
        THEN exit_code = Some(1) /\ CountLines(log) = {}
        ELSE /\ exit_code = Some(0)
             /\ CountLines(log) = {Len(log)}
             /\ log[Len(log)].n = Cardinality({i \in DOMAIN attempts :
                                                  attempts[i].raised = ""})
             /\ log[Len(log)].n = Len(ret.result)
             /\ \A i \in DOMAIN ret.result :
                   IsFile(fs, ret.result[i]) /\ fs[ret.result[i]].data.tag = "html"

\* a run in which every notebook fails and the count 0 is reported
C16_Witness ==
    /\ DirectoryMode
    /\ Len(attempts) = 2
    /\ \A i \in DOMAIN attempts : attempts[i].raised # ""
    /\ log[Len(log)] = CountLine("Successfully converted notebook(s)", 0)
    /\ exit_code = Some(0)

\* the last convert_single_file call passed the checks of its input path
PassedChecks ==
    call.op = "single" /\ Exists(before, call.input) /\ HasNotebookExtension(call.input)

\* what stands in the way of the conversion of the last call, as the step
\* that meets it raises it: the load, the write of the page, the side-car
\* directory, the write of a resource; "" when nothing does
Obstacle ==
    IF ~IsNotebookFile(before, call.input) THEN "NotJSONError"
    ELSE IF BlockedByFile(before, ExpectedOutput) THEN "NotADirectoryError"
    ELSE IF ~Exists(before, Parent(ExpectedOutput)) THEN "FileNotFoundError"
    ELSE IF IsDir(before, ExpectedOutput) THEN "IsADirectoryError"
    ELSE IF /\ ResourcesOf(before, call.input) # <<>>
            /\ IsFile(before, SidecarDir(ExpectedOutput))
    THEN "FileExistsError"
    ELSE IF \E k \in DOMAIN ResourcesOf(before, call.input) :
               IsDir(before, Append(SidecarDir(ExpectedOutput),
                                    ResourcesOf(before, call.input)[k]))
    THEN "IsADirectoryError"
    ELSE ""

(***************************************************************************)
(* C17, as claimed: a failure while loading, rendering or writing in       *)
(* convert_single_file reaches the caller as a ConversionError, and no     *)
(* result path is returned.                                                *)
(***************************************************************************)
C17_FailureWrapped ==
    (PassedChecks /\ Obstacle # "") =>
        /\ ret.state = "raised"
        /\ ret.raised = "ConversionError"
        /\ ret.result = None

(***************************************************************************)
(* C17, amended: a failure while loading, rendering or writing in          *)
(* convert_single_file is reported in one "Error converting" line and      *)
(* reaches the caller as the very exception the failing step raised, not   *)
(* wrapped; the call returns a path exactly when nothing failed.           *)
(***************************************************************************)
C17_FailureReraised ==
    PassedChecks =>
        /\ ret.raised = Obstacle
        /\ ret.state = (IF Obstacle = "" THEN "returned" ELSE "raised")
        /\ ret.state = "raised"
              => /\ ret.result = None
                 /\ log[Len(log)] = Line("Error converting", call.input)
                 /\ Cardinality(ErrorLines(log)) = 1
        /\ ret.state = "returned"
              => /\ ret.result = Some(ExpectedOutput)
                 /\ ErrorLines(log) = {}

\* the page cannot be written for want of its directory: the caller gets
\* FileNotFoundError although the input is there
C17_Witness ==
    /\ PassedChecks
    /\ IsNotebookFile(before, call.input)
    /\ ret.state = "raised"
    /\ ret.raised = "FileNotFoundError"
    /\ ret.result = None

(***************************************************************************)
(* C18, as claimed: in a batch every notebook whose conversion fails is    *)
(* logged as a failure exactly once, and no other failure is logged: one   *)
(* malformed notebook among valid ones gives exactly one failure entry.    *)
(***************************************************************************)
C18_OneFailureEntryPerFailure ==
    (call.op = "directory" /\ ret.state = "returned") =>
        /\ \A i \in DOMAIN attempts :
              Cardinality({k \in ErrorLines(log) : log[k].path = attempts[i].nb})
                 = (IF attempts[i].raised = "" THEN 0 ELSE 1)
        /\ Cardinality(ErrorLines(log))
              = Cardinality({i \in DOMAIN attempts : attempts[i].raised # ""})

(***************************************************************************)
(* C19, as claimed: the template of a converter is always one of classic,  *)
(* lab and reveal, however the converter was constructed.                  *)
(***************************************************************************)
C19_TemplateEnumerated == conv.template \in {"classic", "lab", "reveal"}

\* the resource files the last convert_single_file call wrote
WrittenResources ==
    {ev[i].path : i \in {k \in DOMAIN ev :
                            ev[k].op = "write" /\ ev[k].path # ExpectedOutput}}

(***************************************************************************)
(* C20, as claimed: the result of a successful convert_single_file carries *)
(* the resolved output path and, when resource files were written beside   *)
(* the page, the paths of those files.                                     *)
(***************************************************************************)
C20_ResultListsResources ==
    (call.op = "single" /\ ret.state = "returned") =>
        /\ ret.result # <<>>
        /\ ret.result[1] = ExpectedOutput
        /\ WrittenResources \subseteq Range(ret.result)

(***************************************************************************)
(* C20, amended: the result of a successful convert_single_file is the     *)
(* resolved output path and nothing else; the resource files written       *)
(* beside the page are not part of it (they are the files of               *)
(* <output-stem>_files named by the exporter's mapping).                   *)
(***************************************************************************)
C20_ResultIsThePath ==
    (call.op = "single" /\ ret.state = "returned") =>
        /\ ret.result = Some(ExpectedOutput)
        /\ IsFile(fs, ExpectedOutput)
        /\ WrittenResources =
              {Append(SidecarDir(ExpectedOutput), ResourcesOf(before, call.input)[k]) :
                  k \in DOMAIN ResourcesOf(before, call.input)}
        /\ \A p \in WrittenResources : p \notin Range(ret.result)

\* two resource files written, the result the path of the page alone
C20_Witness ==
    /\ call.op = "single"
    /\ ret.state = "returned"
    /\ Cardinality(WrittenResources) = 2
    /\ ret.result = Some(ExpectedOutput)

\* the write of a resource of the last convert_single_file call, or the
\* making of its side-car directory, fails after the page could be written
ResourceStepFails == Obstacle \in {"FileExistsError", "IsADirectoryError"}
                        /\ ~IsDir(before, ExpectedOutput)

(***************************************************************************)
(* C26: within one convert_single_file call the write of the HTML file     *)
(* comes before the side-car directory is made and before any resource     *)
(* file is written; when the side-car directory or a resource cannot be    *)
(* written the call raises and the page it wrote stays at the output path. *)
(***************************************************************************)
C26_PageBeforeResources ==
    PassedChecks =>
        /\ ev # <<>> => ev[1] = Event("write", ExpectedOutput)
        /\ \A i \in DOMAIN ev : i > 1 => ev[i].path # ExpectedOutput
        /\ ResourceStepFails =>
              /\ ret.state = "raised"
              /\ ev # <<>>
              /\ IsPageOf(fs, ExpectedOutput, before[call.input].data.id)

\* the first resource of in/a.ipynb is written and the second meets a
\* directory: the call raises, the page and the first resource are there
C26_Witness ==
    /\ PassedChecks
    /\ ret.state = "raised"
    /\ ret.raised = "IsADirectoryError"
    /\ Len(ev) = 2
    /\ ev[2].path = Append(SidecarDir(ExpectedOutput), <<"output_0", ".png">>)
    /\ IsPageOf(fs, ExpectedOutput, before[call.input].data.id)
    /\ ~Exists(before, ExpectedOutput)

\* the positions of e that write at p
WritesAt(e, p) == {k \in DOMAIN e : e[k] = Event("write", p)}

(***************************************************************************)
(* C27: within one convert_directory call distinct enumerated notebooks    *)
(* get distinct output HTML paths, each notebook is attempted exactly      *)
(* once, the list returned is the subsequence, in enumeration order, of    *)
(* the output paths of the notebooks that converted, and no conversion of  *)
(* the batch overwrites the HTML file of another: every output path is     *)
(* written at most once, and a converted notebook's page is still its own  *)
(* when the call returns.                                                  *)
(***************************************************************************)
C27_DistinctOutputsOnePass ==
    (call.op = "directory" /\ ret.state = "returned") =>
        /\ Len(attempts) = Len(notebook_files)
        /\ \A i \in DOMAIN attempts : attempts[i].nb = notebook_files[i]
        /\ \A i, j \in DOMAIN attempts :
              i # j => /\ attempts[i].nb # attempts[j].nb
                       /\ attempts[i].out # attempts[j].out
        /\ ret.result = OutputsOf(SelectSeq(attempts, Succeeded))
        /\ \A i \in DOMAIN attempts :
              /\ Cardinality(WritesAt(ev, attempts[i].out)) <= 1
              /\ Succeeded(attempts[i]) =>
                    /\ Cardinality(WritesAt(ev, attempts[i].out)) = 1
                    /\ IsPageOf(fs, attempts[i].out, before[attempts[i].nb].data.id)

\* in/a.ipynb and in/sub/a.ipynb, of the same stem, both converted by one
\* recursive call into out/
C27_Witness ==
    /\ call.op = "directory"
    /\ call.recursive
    /\ call.output = Some(OutDir)
    /\ Len(ret.result) = 2
    /\ Len(attempts) = 2
    /\ Stem(Name(attempts[1].nb)) = Stem(Name(attempts[2].nb))
    /\ IsPageOf(fs, attempts[1].out, before[attempts[1].nb].data.id)
    /\ IsPageOf(fs, attempts[2].out, before[attempts[2].nb].data.id)
    /\ before[attempts[1].nb].data.id # before[attempts[2].nb].data.id

(***************************************************************************)
(* C22: every HTML file convert_single_file writes holds the custom        *)
(* stylesheet of the post-processing pass, whatever the template and the   *)
(* body the exporter rendered.                                             *)
(***************************************************************************)
C22_StylesheetInEveryPage ==
    \A k \in DOMAIN ev :
        (ev[k].op = "write" /\ IsFile(fs, ev[k].path)
            /\ fs[ev[k].path].data.tag = "html") => fs[ev[k].path].data.css

\* the last call is a convert_single_file call that repeats the one before
\* it, which returned: same notebook path, same output path
RepeatsLastCall ==
    /\ call.op = "single"
    /\ prev.call.op = "single"
    /\ prev.ret.state = "returned"
    /\ call.input = prev.call.input
    /\ call.output = prev.call.output

(***************************************************************************)
(* C21, as claimed: converting the same notebook twice with the same       *)
(* configuration and output path leaves the output file, after the second  *)
(* conversion, with the content the first one wrote.                       *)
(***************************************************************************)
C21_SameHtmlTwice ==
    RepeatsLastCall =>
        /\ IsFile(fs, ExpectedOutput)
        /\ fs[ExpectedOutput] = before[ExpectedOutput]

(***************************************************************************)
(* C21, amended: converting the same notebook twice with the same          *)
(* configuration and output path leaves the output file, after the second  *)
(* conversion, with the content the first one wrote, provided the          *)
(* converter does not execute the notebook or the kernel run ends the same *)
(* way both times.                                                         *)
(***************************************************************************)
C21_SameHtmlTwiceSameKernelRun ==
    (RepeatsLastCall /\ (conv.execute_notebook => call.env = prev.call.env)) =>
        /\ IsFile(fs, ExpectedOutput)
        /\ fs[ExpectedOutput] = before[ExpectedOutput]

\* in/a.ipynb converted a second time to in/a.html: the page is written
\* again and is the one that was there
C21_Witness ==
    /\ RepeatsLastCall
    /\ call.input = NbA
    /\ call.output = None
    /\ ret.state = "returned"
    /\ ev # <<>>
    /\ ev[1] = Event("write", WithSuffix(NbA, ".html"))
    /\ IsPageOf(before, WithSuffix(NbA, ".html"), "nbA")
    /\ fs[WithSuffix(NbA, ".html")] = before[WithSuffix(NbA, ".html")]

\* how a convert_single_file call with the arguments of the last call ends
\* on the filesystem it found: the error it raises, "" when it returns
ExpectedRaise ==
    IF ~Exists(before, call.input) THEN "FileNotFoundError"
    ELSE IF ~HasNotebookExtension(call.input) THEN "ValueError"
    ELSE Obstacle

\* the page at p was rendered with the configuration cv
RenderedWith(f, p, cv) ==
    /\ IsFile(f, p)
    /\ f[p].data.tag = "html"
    /\ f[p].data.tpl = cv.template
    /\ f[p].data.inp = cv.include_input
    /\ f[p].data.emb = cv.embed_images

\* the outcome of the last call, made after another call on the same
\* converter, is the one its arguments, the filesystem it found and the
\* configuration the converter was built with give
OutcomeFromInputsAlone ==
    prev.call.op # "" =>
        /\ call.op = "single" =>
              /\ ret.raised = ExpectedRaise
              /\ ExpectedRaise = "" =>
                    /\ ret.result = Some(ExpectedOutput)
                    /\ IsPageOf(fs, ExpectedOutput, before[call.input].data.id)
                    /\ RenderedWith(fs, ExpectedOutput, conv)
              /\ ExpectedRaise \in {"FileNotFoundError", "ValueError"} \cup {"NotJSONError"}
                    => fs = before
        /\ (call.op = "directory" /\ ret.state = "returned") =>
              /\ Range(notebook_files) =
                    {p \in DOMAIN before :
                        /\ InScope(p, call.input, call.recursive)
                        /\ Name(p)[Len(Name(p))] = ".ipynb"}
              /\ \A i \in DOMAIN attempts :
                    /\ Succeeded(attempts[i]) => IsNotebookFile(before, attempts[i].nb)
                    /\ Succeeded(attempts[i])
                          => RenderedWith(fs, attempts[i].out, conv)

(***************************************************************************)
(* C24: no call of convert_single_file or convert_directory changes the    *)
(* converter's configuration, and a call made after other calls on the     *)
(* same converter ends as its arguments, the filesystem it finds and that  *)
(* configuration alone determine: whether and what it raises, the path it  *)
(* returns, the notebooks it enumerates and the pages it writes.           *)
(***************************************************************************)
C24_CallsAreStateless ==
    /\ [][conv' = conv]_vars
    /\ []OutcomeFromInputsAlone

\* a notebook converted to its default path by a call that follows a call
\* with an explicit output path
C24_Witness ==
    /\ call.op = "single"
    /\ call.output = None
    /\ ret.state = "returned"
    /\ ret.result = Some(WithSuffix(call.input, ".html"))
    /\ prev.call.op = "single"
    /\ prev.call.output # None
    /\ prev.ret.state = "returned"
    /\ prev.ret.result # ret.result

\* what the invocation i does when it runs alone on the filesystem the two
\* invocations started on
Alone(i) ==
    ConvertSingleFile(before, conv, extracts, procs[i].input,
                      Some(procs[i].out), QuietEnv)

\* both invocations have ended
BothDone == procs # <<>> /\ \A i \in DOMAIN procs : procs[i].pc = "done"

(***************************************************************************)
(* C23: two convert_single_file invocations running at the same time with  *)
(* different output paths do not interfere: in every interleaving, when    *)
(* both have ended, the HTML file and every side-car resource file of each *)
(* invocation hold what that invocation writes when it runs alone.         *)
(***************************************************************************)
C23_DisjointOutputsDoNotInterfere ==
    BothDone =>
        \A i \in DOMAIN procs :
            \A k \in DOMAIN Alone(i).ev :
                Alone(i).ev[k].op = "write" =>
                    /\ IsFile(fs, Alone(i).ev[k].path)
                    /\ fs[Alone(i).ev[k].path] = Alone(i).fs[Alone(i).ev[k].path]

\* the worker threads that have not ended
Running == {k \in DOMAIN threads : threads[k].pc \in {"start", "loop"}}

(***************************************************************************)
(* C25: in each front end at most one conversion worker runs at any time:  *)
(* from the press of Convert until the worker's completion has been        *)
(* handled the button stays disabled, so that no sequence of presses,      *)
(* selections and clearings starts a second worker.                        *)
(***************************************************************************)
C25_OneWorkerAtATime ==
    toolkit # "" =>
        /\ Cardinality(Running) <= 1
        /\ Len(threads) <= 1
        /\ threads # <<>> => ~convert_enabled

\* a second run started after the first one was over, the selection having
\* been changed while the first worker ran
C25_Witness ==
    /\ nruns = 2
    /\ reenabled = 1
    /\ Len(threads) = 1
    /\ threads[1].pc = "loop"
    /\ threads[1].pressed_files # selected_files

(***************************************************************************)
(* C28: in the Qt window the Convert button is enabled only while the      *)
(* selection is not empty, whatever files or folders were selected, the    *)
(* selection cleared, conversions started and finished.                    *)
(***************************************************************************)
C28_EnabledOnlyWithSelection ==
    (toolkit = "qt" /\ convert_enabled) => selected_files # <<>>

(***************************************************************************)
(* C29: a run started from a front end converts the files that were        *)
(* selected, with the settings there were, when Convert was pressed,       *)
(* whatever the user does to the selection and the settings while the      *)
(* worker starts and runs.                                                 *)
(***************************************************************************)
C29_ConvertsWhatWasSelected ==
    \A k \in DOMAIN threads :
        threads[k].pc \in {"loop", "done"} =>
            /\ threads[k].files = threads[k].pressed_files
            /\ threads[k].settings = threads[k].pressed_settings

\* the messages the worker w has sent for its first n files
RECURSIVE SentFor(_, _)
SentFor(w, n) ==
    IF n = 0 THEN <<>>
    ELSE SentFor(w, n - 1)
            \o <<Msg("Converting", w.files[n], TRUE, 0),
                 IF w.files[n] \in Range(w.failed)
                 THEN Msg("Error", w.files[n], FALSE, 0)
                 ELSE Msg("Converted", w.files[n], TRUE, 0)>>

\* the last messages of a worker that has ended
LastWords(w) ==
    IF w.pc = "failed"
    THEN IF toolkit = "qt" THEN <<Finished(FALSE, 0)>>
         ELSE <<Msg("Conversion failed", <<>>, FALSE, 0), EnableButton>>
    ELSE IF w.pc = "done"
    THEN IF toolkit = "qt"
         THEN <<Finished(w.failed = <<>>, Len(w.files) - Len(w.failed))>>
         ELSE <<Msg("Summary", <<>>, w.failed = <<>>, Len(w.files) - Len(w.failed)),
                EnableButton>>
    ELSE <<>>

\* the worker's messages, handled and waiting, are the ones of its files
\* in order, then its last words, the completion being the very last and
\* the only one
InOrderCompletionLast ==
    \A k \in DOMAIN threads :
        LET w == threads[k]
            all == delivered \o message_queue
        IN  /\ all = SentFor(w, IF w.pc = "start" THEN 0 ELSE w.i - 1) \o LastWords(w)
            /\ \A j \in DOMAIN all : IsCompletion(all[j]) => j = Len(all)
            /\ w.pc \in {"done", "failed"}
                  => all # <<>> /\ IsCompletion(all[Len(all)])
            /\ (toolkit = "qt" /\ w.pc = "done")
                  => all[Len(all)].ok = (w.failed = <<>>)

(***************************************************************************)
(* C30: every run started from a front end enables the Convert button      *)
(* again in the end, files failing or the whole run failing; until then    *)
(* the worker's messages are handled in the order sent, the completion     *)
(* (ENABLE_BUTTON in Tk, the finished signal in Qt) is the last message of *)
(* the run and the only one, and Qt's finished says success exactly when   *)
(* no file failed.                                                         *)
(***************************************************************************)
C30_ButtonEnabledAgain ==
    /\ []InOrderCompletionLast
    /\ [](reenabled <= nruns)
    /\ [][reenabled' # reenabled => convert_enabled']_vars
    /\ \A n \in 1..MaxRuns : (nruns >= n) ~> (reenabled >= n)

\* a run in which a file failed and another converted has been completed
\* and the button is enabled again
C30_Witness ==
    /\ nruns = 1
    /\ reenabled = 1
    /\ convert_enabled
    /\ threads = <<>>
    /\ IsFile(fs, WithSuffix(NbA, ".html"))

====
